---- MODULE Spec2Model ----
(***************************************************************************)
(* A model of the EIS bank-guarantee collector                             *)
(* (src/data/collect_eis_guarantees.py and src/data/eis/*.py).             *)
(*                                                                         *)
(* Eight specifications share this module.                                 *)
(*                                                                         *)
(*   Spec      successive invocations of main(): the worklist, the worker  *)
(*             partitions, the batch writers and the persisted run state   *)
(*             (run counter, processed-ID log, retry queue, checkpoint,    *)
(*             attribute union, output files).  One action is one whole    *)
(*             iteration of the loop of _process_ids; the outcome of the   *)
(*             fetch pipeline of one ID is drawn from Outcomes.            *)
(*                                                                         *)
(*   TaskSpec  the fetch pipeline of one ID inside _process_ids, statement *)
(*             group by statement group, with the exceptions and timeouts  *)
(*             the browser, the file system and the SIGALRM timer can      *)
(*             raise at each of them.                                      *)
(*                                                                         *)
(*   PoolSpec  two workers of the thread pool over the striped slices of   *)
(*             one worklist, with the critical section of lines 335-362    *)
(*             taken statement by statement.                               *)
(*                                                                         *)
(*   PollSpec  _wait_for_download_result polling the download directory    *)
(*             while the browser writes, renames and completes the file.   *)
(*                                                                         *)
(*   SessionSpec  the browser sessions one worker builds, restarts and     *)
(*             quits between line 123 and the finally clause.              *)
(*                                                                         *)
(*   PlanSpec  parse_ids and the slicing of main() as functions of the     *)
(*             command line and of the retry queue on disk.                *)
(*                                                                         *)
(*   WriterSpec  one ParquetBatchWriter under any sequence of add() and    *)
(*             flush() calls.                                              *)
(*                                                                         *)
(*   DownloadSpec  download_attachments over the attachment list of one    *)
(*             record, in a first and in a later call, next to the browser *)
(*             that writes the download directory and owns the windows.    *)
(*                                                                         *)
(* PoolFairSpec and PollFairSpec are PoolSpec and PollSpec under a         *)
(* scheduler that lets every thread run.                                   *)
(***************************************************************************)
EXTENDS Integers, Sequences, FiniteSets, TLC

(***************************************************************************)
(* Bounds of the model.                                                    *)
(***************************************************************************)
\* invocations of main() in one behaviour
MaxRuns == 2
\* ParquetBatchWriter.batch_size, scaled down from its default
batch_size == 2
\* --max-retries, scaled down from its default
max_retries == 2

\* the IDs --ids selects, in order
Selection == <<1, 2>>
Ids == {Selection[i] : i \in DOMAIN Selection}
\* values of --workers
WorkerCounts == {1, 2}
Workers == 1..2

Statuses == {"OK", "MISSING", "ERROR", "PARTIAL", "TIMEOUT"}
StatKeys == Statuses \cup {"FILES"}

VARIABLES
    \* ---- persisted state (files under STATE_DIR and processed/) ----
    last_run_id,        \* run_state.json
    processed_log,      \* processed_ids.txt: number of lines holding each ID
    retry_queue,        \* retry_queue.json: ordered map, a sequence of [k, v]
    checkpoint,         \* checkpoint.json (run_id 0: no file yet)
    attribute_union,    \* attribute_union.json: set of <<section, field>>
    out_files,          \* the parquet files written: [table, run, worker, rows]
    \* ---- memory of the running invocation ----
    phase,              \* "idle" | "running"
    args,               \* [force, workers]
    run_id,
    ids,                \* the worklist parse_ids returned
    processed_ids,      \* the shared set
    retry_state,        \* the shared dict, ordered as Python keeps it
    pc,                 \* per worker: "none" | "start" | "run" | "returned" | "raised"
    idx,                \* per worker: position in its slice (enumerate index)
    writers,            \* per worker: the three writers' _batch lists
    stats,              \* per worker: its stats dict
    \* ---- history, read only by the properties ----
    done,               \* per worker: IDs whose critical section it completed this run
    succeeded,          \* IDs some attempt of which ended OK or MISSING
    prev                \* what the previous invocation left when it was interrupted

VARIABLES
    \* ---- one worker inside the loop body of _process_ids (TaskSpec) ----
    cfg,                \* [mode, main_thread, per_id_timeout]
    t_pc,               \* the statement group the worker is at
    t_index,            \* enumerate index of the ID in the worker's slice
    armed,              \* PerIdTimeout: SIGALRM is set
    expired,            \* time.monotonic() >= deadline
    expired_in,         \* history: where the worker was when the deadline passed
    status,
    error_message,
    warnings,
    attributes_rows,    \* number of attribute rows
    files_rows,         \* download_status of each file row
    attachments,        \* number of attachments parse_document_info listed
    general_html,       \* "" | "MISSING_PAGE" | "PAGE"
    documents_html,
    results,            \* download_attachments: its local list
    emitted,            \* rows handed to the three writers for this ID
    \* ---- history, read only by the properties ----
    documents_loaded,   \* the documents page was requested or read for this ID
    wait_exceeded       \* the wait for the primary page ran out of time

VARIABLES
    \* ---- the workers of one run around the shared lock (PoolSpec) ----
    pool,               \* [workers, before]: --workers, the IDs logged by earlier runs
    state_lock,         \* the worker inside "with state_lock", 0 when free
    p_pc,               \* per worker: the statement group it is at
    p_idx,              \* per worker: position in its slice
    p_outcome,          \* per worker: the outcome of the ID it is handling
    shared,             \* [processed_ids, processed_file, retry_state,
                        \*  attribute_union, checkpoint]
    \* ---- history, read only by the properties ----
    p_done              \* per worker: the IDs it has processed

VARIABLES
    \* ---- downloader._wait_for_download_result and its directory (PollSpec) ----
    poll_cfg,           \* [timeout, stall_seconds]
    clock,              \* time.time(), whole seconds since the poll began
    dir,                \* download_dir: file name -> size, Absent when not there
    marker,             \* the error status the download tab shows, "" for none
    d_pc,               \* the statement group the poll is at
    progress,           \* the dict progress: name -> [size, last_change]
    new_files,          \* the names the last listing found
    wake,               \* when time.sleep(1) returns
    result,             \* [path, status] the poll returned
    \* ---- history, read only by the properties ----
    changed_at          \* name -> second in which its size last changed

VARIABLES
    \* ---- one worker and its browser sessions (SessionSpec) ----
    s_mode,             \* args.mode
    s_pc,               \* the statement group the worker is at
    s_index,            \* position in its slice
    driver,             \* the session the variable driver refers to, 0 for None
    open_sessions,      \* the sessions built by the worker and not yet quit
    created,            \* how many sessions the worker has built
    s_status,           \* status as the except clauses leave it
    s_error,            \* error_message, a text as the sequence of its characters
    s_restarted,        \* history: _restart_driver built a session for this ID
    \* ---- history, read only by the properties ----
    exit_route          \* how the worker left _process_ids

VARIABLES
    \* ---- main() up to the start of the workers (PlanSpec) ----
    cli,                \* args: ids, start_id, end_id, max_ids, skip_retries, workers
    queue_file,         \* the dict in retry_queue.json, ordered as json.load keeps it
    plan_pc,            \* the statement main() is at
    plan_retry_ids,     \* retry_ids
    plan_ids,           \* ids, the worklist
    slices              \* per worker the list it is started with

VARIABLES
    \* ---- one ParquetBatchWriter and its output directory (WriterSpec) ----
    w_batch,            \* self._batch
    w_files,            \* the files in output_dir
    w_pc,               \* "none" | "open" | "raised"
    w_next,             \* the number the next added record gets
    \* ---- history, read only by the properties ----
    w_last,             \* the method called last: "" | "add" | "flush"
    w_streak            \* how many flush() calls were made in a row

VARIABLES
    \* ---- downloader.download_attachments for one record (DownloadSpec) ----
    dl_force,           \* force
    dl_call,            \* "none" | "first" | "later": which call for this record
    dl_atts,            \* attachments: Path(original_filename).suffix of each
    dl_pc,              \* the statement group the downloader is at
    dl_index,           \* index of the for loop
    dl_results,         \* results: the download_status of each row
    dl_store,           \* the files in id_dir, as <<index, suffix>>
    dl_dir,             \* download_dir: the file of the download each attachment
                        \* started, "absent" | "part" | "done"
    dl_before,          \* before_files
    dl_handles,         \* driver.window_handles
    dl_focus,           \* the window the driver is switched to
    dl_handle,          \* download_handle, "" for None
    dl_downloaded,      \* downloaded: the attachment whose download wrote it
    \* ---- history, read only by the properties ----
    dl_first,           \* the statuses the first call appended
    dl_origin           \* index -> the attachment whose file was stored for it

download_vars == <<dl_force, dl_call, dl_atts, dl_pc, dl_index, dl_results, dl_store,
                   dl_dir, dl_before, dl_handles, dl_focus, dl_handle,
                   dl_downloaded, dl_first, dl_origin>>

writer_vars == <<w_batch, w_files, w_pc, w_next, w_last, w_streak>>

plan_vars == <<cli, queue_file, plan_pc, plan_retry_ids, plan_ids, slices>>

session_vars == <<s_mode, s_pc, s_index, driver, open_sessions, created, s_status,
                  s_error, s_restarted, exit_route>>

poll_vars == <<poll_cfg, clock, dir, marker, d_pc, progress, new_files, wake,
               result, changed_at>>

pool_vars == <<pool, state_lock, p_pc, p_idx, p_outcome, shared, p_done>>

task_vars == <<cfg, t_pc, t_index, armed, expired, expired_in, status, error_message, warnings,
               attributes_rows, files_rows, attachments, general_html,
               documents_html, results, emitted, documents_loaded, wait_exceeded>>

outside_run == <<task_vars, pool_vars, poll_vars, session_vars, plan_vars, writer_vars,
    download_vars>>

run_vars == <<last_run_id, processed_log, retry_queue, checkpoint, attribute_union,
              out_files, phase, args, run_id, ids, processed_ids, retry_state, pc,
              idx, writers, stats, done, succeeded, prev>>

outside_task == <<run_vars, pool_vars, poll_vars, session_vars, plan_vars, writer_vars,
    download_vars>>

outside_pool == <<run_vars, task_vars, poll_vars, session_vars, plan_vars, writer_vars,
    download_vars>>

outside_session == <<run_vars, task_vars, pool_vars, poll_vars, plan_vars, writer_vars,
    download_vars>>

outside_plan == <<run_vars, task_vars, pool_vars, poll_vars, session_vars, writer_vars,
    download_vars>>

outside_writer ==
    <<run_vars, task_vars, pool_vars, poll_vars, session_vars, plan_vars,
      download_vars>>

outside_poll == <<run_vars, task_vars, pool_vars, session_vars, plan_vars, writer_vars,
    download_vars>>

outside_download ==
    <<run_vars, task_vars, pool_vars, poll_vars, session_vars, plan_vars,
      writer_vars>>

Persisted == <<last_run_id, processed_log, retry_queue, checkpoint, attribute_union,
               out_files>>

(***************************************************************************)
(* Helpers on sequences and ordered maps.                                  *)
(***************************************************************************)
Range(s) == {s[i] : i \in DOMAIN s}

\* Python dict as a sequence of [k, v] in insertion order
DictKeys(d) == {d[i].k : i \in DOMAIN d}

DictGet(d, key, default) ==
    IF key \in DictKeys(d)
    THEN (CHOOSE e \in Range(d) : e.k = key).v
    ELSE default

\* d[key] = value: an existing key keeps its place, a new one goes last
DictSet(d, key, value) ==
    IF key \in DictKeys(d)
    THEN [i \in DOMAIN d |-> IF d[i].k = key THEN [k |-> key, v |-> value] ELSE d[i]]
    ELSE Append(d, [k |-> key, v |-> value])

\* d.pop(key, None)
DictPop(d, key) ==
    LET Other(e) == e.k # key IN SelectSeq(d, Other)

ZeroStats == [k \in StatKeys |-> 0]

NoCheckpoint == [run_id |-> 0, last_processed_id |-> 0, stats |-> ZeroStats]

EmptyWriters == [guarantees |-> <<>>, attributes |-> <<>>, files |-> <<>>]

(***************************************************************************)
(* storage.py                                                              *)
(***************************************************************************)
\* load_processed_ids: the set of the integers on the lines of the log
load_processed_ids(log) == {i \in Ids : log[i] > 0}

\* a log that is never appended to
append_processed_id_dropped(log, id) == log

\* append_processed_id: one more line, whatever the log already holds
append_processed_id(log, id) == [log EXCEPT ![id] = @ + 1]

\* a run counter that is read and written back without the increment
next_run_id_stale(last) == last

\* next_run_id: read, increment, persist
next_run_id(last) == last + 1

\* a union file that keeps only the rows of the last merge
update_attribute_union_replaced(union, rows) ==
    {<<rows[i].section, rows[i].field_name>> : i \in DOMAIN rows}

\* update_attribute_union: rows with an empty section or field name are skipped
update_attribute_union(union, rows) ==
    union \cup {<<rows[i].section, rows[i].field_name>> :
                  i \in {j \in DOMAIN rows :
                           rows[j].section # "" /\ rows[j].field_name # ""}}

\* flush without the test of line 120: an empty batch gives an empty file
WriterFlushAlways(batch, table, run, w, files) ==
    [batch |-> <<>>,
     files |-> files \cup {[table |-> table, run |-> run, worker |-> w,
                            rows |-> batch]}]

\* ParquetBatchWriter.flush: nothing on an empty batch, else one new file
\* holding the whole batch.  Result: [batch, files].
WriterFlush(batch, table, run, w, files) ==
    IF batch = <<>>
    THEN [batch |-> batch, files |-> files]
    ELSE [batch |-> <<>>,
          files |-> files \cup {[table |-> table, run |-> run, worker |-> w,
                                 rows |-> batch]}]

\* add without the test of line 116: the batch only grows
WriterAddNoFlush(batch, records, table, run, w, files) ==
    [batch |-> batch \o records, files |-> files]

\* ParquetBatchWriter.add: extend, then flush once batch_size is reached
WriterAdd(batch, records, table, run, w, files) ==
    IF Len(batch \o records) >= batch_size
    THEN WriterFlush(batch \o records, table, run, w, files)
    ELSE [batch |-> batch \o records, files |-> files]

(***************************************************************************)
(* collect_eis_guarantees.py: main() and parse_ids                         *)
(***************************************************************************)
\* retry_ids = [int(k) for k, v in retry_state.items() if v < args.max_retries]
RetryIds(d) ==
    LET Eligible(e) == e.v < max_retries
        kept == SelectSeq(d, Eligible)
    IN  [i \in DOMAIN kept |-> kept[i].k]

\* the retry queue put first without dropping its IDs from the selection
parse_ids_unfiltered(selected, retry_ids) ==
    IF retry_ids # <<>>
    THEN retry_ids \o selected
    ELSE selected

\* parse_ids with --skip-retries unset
parse_ids(selected, retry_ids) ==
    IF retry_ids # <<>>
    THEN LET NotRetry(i) == i \notin Range(retry_ids)
         IN  retry_ids \o SelectSeq(selected, NotRetry)
    ELSE selected

\* the worklist cut into one chunk of consecutive IDs per worker
SliceChunked(worklist, n, w) ==
    LET len == Len(worklist)
        per == (len + n - 1) \div n
    IN  IF w > n THEN <<>>
        ELSE SubSeq(worklist, (w - 1) * per + 1,
                    IF w * per < len THEN w * per ELSE len)

\* ids[i::workers] for worker_id = i + 1; the whole list when workers <= 1
Slice(worklist, n, w) ==
    IF n <= 1
    THEN IF w = 1 THEN worklist ELSE <<>>
    ELSE IF w > n THEN <<>>
         ELSE LET len == Len(worklist)
                  cnt == IF len >= w THEN ((len - w) \div n) + 1 ELSE 0
              IN  [j \in 1..cnt |-> worklist[w + (j - 1) * n]]

MySlice(w) == Slice(ids, args.workers, w)

\* the workers main() starts: those with a non-empty slice
Active == {w \in Workers : MySlice(w) # <<>>}

(***************************************************************************)
(* The outcome of the fetch pipeline of one ID (lines 148-319), as far as  *)
(* the bookkeeping reads it: the final status, the attribute rows and the  *)
(* number of file rows.  TaskSpec models the pipeline itself.              *)
(***************************************************************************)
AttrRow == [section |-> "s", field_name |-> "f"]

Outcomes ==
    { [status |-> "OK",      attributes_rows |-> <<AttrRow>>, files_rows |-> 1],
      [status |-> "MISSING", attributes_rows |-> <<>>,        files_rows |-> 0],
      [status |-> "ERROR",   attributes_rows |-> <<>>,        files_rows |-> 0],
      [status |-> "PARTIAL", attributes_rows |-> <<AttrRow>>, files_rows |-> 1],
      [status |-> "TIMEOUT", attributes_rows |-> <<>>,        files_rows |-> 0] }

\* retry bookkeeping that keeps an entry up to max_retries attempts
UpdateRetryInclusive(d, id, st) ==
    IF st \in {"ERROR", "PARTIAL", "TIMEOUT"}
    THEN LET attempts == DictGet(d, id, 0) + 1
         IN  IF attempts <= max_retries
             THEN DictSet(d, id, attempts)
             ELSE DictPop(d, id)
    ELSE DictPop(d, id)

\* the retry bookkeeping of the critical section (lines 345-352)
UpdateRetry(d, id, st) ==
    IF st \in {"ERROR", "PARTIAL", "TIMEOUT"}
    THEN LET attempts == DictGet(d, id, 0) + 1
         IN  IF attempts < max_retries
             THEN DictSet(d, id, attempts)
             ELSE DictPop(d, id)
    ELSE DictPop(d, id)

\* a checkpoint that keeps the largest ID seen instead of the last one written
CheckpointWatermark(run, id, st) ==
    [run_id |-> run,
     last_processed_id |-> IF checkpoint.run_id = run /\ checkpoint.last_processed_id > id
                           THEN checkpoint.last_processed_id ELSE id,
     stats |-> st]

\* lines 354-362: the payload of checkpoint.json (updated_at left out)
CheckpointPayload(run, id, st) ==
    [run_id |-> run, last_processed_id |-> id, stats |-> st]

\* the skip test taken to fail always
SkipIdNever(id) == FALSE

\* the skip test with the force flag read the wrong way round
SkipIdFlagInverted(id) == id \in processed_ids /\ args.force

\* if guarantee_id in processed_ids and not args.force: continue
SkipId(id) == id \in processed_ids /\ ~args.force

NoPrev == [interrupted |-> FALSE, eligible |-> {}, remaining |-> {}]

RunInit ==
    /\ last_run_id = 0
    /\ processed_log = [i \in Ids |-> 0]
    /\ retry_queue = <<>>
    /\ checkpoint = NoCheckpoint
    /\ attribute_union = {}
    /\ out_files = {}
    /\ phase = "idle"
    /\ args = [force |-> FALSE, workers |-> 1]
    /\ run_id = 0
    /\ ids = <<>>
    /\ processed_ids = {}
    /\ retry_state = <<>>
    /\ pc = [w \in Workers |-> "none"]
    /\ idx = [w \in Workers |-> 1]
    /\ writers = [w \in Workers |-> EmptyWriters]
    /\ stats = [w \in Workers |-> ZeroStats]
    /\ done = [w \in Workers |-> {}]
    /\ succeeded = {}
    /\ prev = NoPrev

\* the memory of an invocation is gone once the process has exited
ForgetRun ==
    /\ phase' = "idle"
    /\ args' = [force |-> FALSE, workers |-> 1]
    /\ run_id' = 0
    /\ ids' = <<>>
    /\ processed_ids' = {}
    /\ retry_state' = <<>>
    /\ pc' = [w \in Workers |-> "none"]
    /\ idx' = [w \in Workers |-> 1]
    /\ writers' = [w \in Workers |-> EmptyWriters]
    /\ stats' = [w \in Workers |-> ZeroStats]
    /\ done' = [w \in Workers |-> {}]

\* main(), lines 544-594: load the retry queue, build the worklist, take the
\* run id, load the processed IDs and start the workers
StartRun(force, n) ==
    /\ phase = "idle"
    /\ last_run_id < MaxRuns
    /\ LET loaded == retry_queue
           worklist == parse_ids(Selection, RetryIds(loaded))
       IN  /\ worklist # <<>>
           /\ retry_state' = loaded
           /\ ids' = worklist
           /\ pc' = [w \in Workers |->
                       IF Slice(worklist, n, w) # <<>> THEN "start" ELSE "none"]
    /\ run_id' = next_run_id(last_run_id)
    /\ last_run_id' = next_run_id(last_run_id)
    /\ processed_ids' = load_processed_ids(processed_log)
    /\ args' = [force |-> force, workers |-> n]
    /\ phase' = "running"
    /\ idx' = [w \in Workers |-> 1]
    /\ writers' = [w \in Workers |-> EmptyWriters]
    /\ stats' = [w \in Workers |-> ZeroStats]
    /\ done' = [w \in Workers |-> {}]
    /\ UNCHANGED <<processed_log, retry_queue, checkpoint, attribute_union,
                   out_files, succeeded, prev>>
    /\ UNCHANGED outside_run

\* _process_ids, lines 104-126: the writers are created and the driver is built
BuildDriver(w) ==
    /\ phase = "running"
    /\ pc[w] = "start"
    /\ pc' = [pc EXCEPT ![w] = "run"]
    /\ UNCHANGED <<last_run_id, processed_log, retry_queue, checkpoint,
                   attribute_union, out_files, phase, args, run_id, ids,
                   processed_ids, retry_state, idx, writers, stats, done,
                   succeeded, prev>>
    /\ UNCHANGED outside_run

\* build_driver raises at line 124: the worker ends before its loop
BuildDriverFails(w) ==
    /\ phase = "running"
    /\ pc[w] = "start"
    /\ pc' = [pc EXCEPT ![w] = "failed"]
    /\ UNCHANGED <<last_run_id, processed_log, retry_queue, checkpoint,
                   attribute_union, out_files, phase, args, run_id, ids,
                   processed_ids, retry_state, idx, writers, stats, done,
                   succeeded, prev>>
    /\ UNCHANGED outside_run

AtId(w) ==
    /\ phase = "running"
    /\ pc[w] = "run"
    /\ idx[w] <= Len(MySlice(w))

\* lines 144-146
SkipProcessed(w) ==
    /\ AtId(w)
    /\ SkipId(MySlice(w)[idx[w]])
    /\ idx' = [idx EXCEPT ![w] = @ + 1]
    /\ UNCHANGED <<last_run_id, processed_log, retry_queue, checkpoint,
                   attribute_union, out_files, phase, args, run_id, ids,
                   processed_ids, retry_state, pc, writers, stats, done,
                   succeeded, prev>>
    /\ UNCHANGED outside_run

\* lines 148-378 for one ID: the pipeline ends with outcome o, its rows go to
\* the three writers, and the critical section updates the shared state
ProcessId(w) ==
    /\ AtId(w)
    /\ LET id == MySlice(w)[idx[w]] IN
       /\ ~SkipId(id)
       /\ \E o \in Outcomes :
            LET row == [run_id |-> run_id, id |-> id]
                g == WriterAdd(writers[w].guarantees, <<row>>, "guarantees",
                               run_id, w, out_files)
                a == WriterAdd(writers[w].attributes,
                               [i \in DOMAIN o.attributes_rows |-> row],
                               "attributes", run_id, w, g.files)
                f == WriterAdd(writers[w].files,
                               [i \in 1..o.files_rows |-> row],
                               "files", run_id, w, a.files)
                new_stats == [stats[w] EXCEPT ![o.status] = @ + 1,
                                              !["FILES"] = @ + o.files_rows]
            IN  /\ writers' = [writers EXCEPT ![w] =
                                 [guarantees |-> g.batch, attributes |-> a.batch,
                                  files |-> f.batch]]
                /\ out_files' = f.files
                /\ attribute_union' =
                     update_attribute_union(attribute_union, o.attributes_rows)
                /\ processed_log' = append_processed_id(processed_log, id)
                /\ processed_ids' = processed_ids \cup {id}
                /\ stats' = [stats EXCEPT ![w] = new_stats]
                /\ retry_state' = UpdateRetry(retry_state, id, o.status)
                /\ checkpoint' = CheckpointPayload(run_id, id, new_stats)
                /\ succeeded' = IF o.status \in {"OK", "MISSING"}
                                THEN succeeded \cup {id} ELSE succeeded
       /\ done' = [done EXCEPT ![w] = @ \cup {id}]
    /\ idx' = [idx EXCEPT ![w] = @ + 1]
    /\ UNCHANGED <<last_run_id, retry_queue, phase, args, run_id, ids, pc, prev>>
    /\ UNCHANGED outside_run

\* lines 293-304 and 137: a transport-fatal exception makes _restart_driver build
\* a new driver, build_driver raises inside the except clause, and the exception
\* leaves the loop through the finally clause: the flushes of lines 380-382 are
\* not reached
RestartFails(w) ==
    /\ AtId(w)
    /\ ~SkipId(MySlice(w)[idx[w]])
    /\ pc' = [pc EXCEPT ![w] = "raised"]
    /\ UNCHANGED <<last_run_id, processed_log, retry_queue, checkpoint,
                   attribute_union, out_files, phase, args, run_id, ids,
                   processed_ids, retry_state, idx, writers, stats, done,
                   succeeded, prev>>
    /\ UNCHANGED outside_run

\* lines 380-388: the end of the slice
FinishWorker(w) ==
    /\ phase = "running"
    /\ pc[w] = "run"
    /\ idx[w] > Len(MySlice(w))
    /\ LET g == WriterFlush(writers[w].guarantees, "guarantees", run_id, w, out_files)
           a == WriterFlush(writers[w].attributes, "attributes", run_id, w, g.files)
           f == WriterFlush(writers[w].files, "files", run_id, w, a.files)
       IN  /\ writers' = [writers EXCEPT ![w] =
                            [guarantees |-> g.batch, attributes |-> a.batch,
                             files |-> f.batch]]
           /\ out_files' = f.files
    /\ pc' = [pc EXCEPT ![w] = "returned"]
    /\ UNCHANGED <<last_run_id, processed_log, retry_queue, checkpoint,
                   attribute_union, phase, args, run_id, ids, processed_ids,
                   retry_state, idx, stats, done, succeeded, prev>>
    /\ UNCHANGED outside_run

\* every worker has ended, by a return or by an exception
AllEnded ==
    /\ phase = "running"
    /\ Active # {}
    /\ \A w \in Active : pc[w] \in {"returned", "raised", "failed"}

AllReturned ==
    /\ phase = "running"
    /\ Active # {}
    /\ \A w \in Active : pc[w] = "returned"

AllStopped ==
    /\ phase = "running"
    /\ \A w \in Active : pc[w] \in {"returned", "raised", "failed"}

\* what an invocation that does not reach line 600 leaves behind
Interrupted ==
    [interrupted |-> TRUE,
     eligible |-> {i \in Ids : i \in DictKeys(retry_state)
                               /\ DictGet(retry_state, i, 0) < max_retries},
     remaining |-> {i \in Range(ids) : i \notin processed_ids}]

\* main(), lines 595-611: every worker returned, the retry queue is saved
EndRun ==
    /\ AllReturned
    /\ retry_queue' = retry_state
    /\ prev' = NoPrev
    /\ ForgetRun
    /\ UNCHANGED <<last_run_id, processed_log, checkpoint, attribute_union,
                   out_files, succeeded>>
    /\ UNCHANGED outside_run

\* main(), lines 560-598: a worker raised; _process_ids (workers <= 1) or
\* future.result() re-raises it in main() and line 600 is not reached
RunRaises ==
    /\ AllStopped
    /\ \E w \in Active : pc[w] \in {"raised", "failed"}
    /\ prev' = Interrupted
    /\ ForgetRun
    /\ UNCHANGED <<last_run_id, processed_log, retry_queue, checkpoint,
                   attribute_union, out_files, succeeded>>
    /\ UNCHANGED outside_run

RunNext ==
    \/ \E force \in BOOLEAN, n \in WorkerCounts : StartRun(force, n)
    \/ \E w \in Workers : BuildDriver(w)
    \/ \E w \in Workers : BuildDriverFails(w)
    \/ \E w \in Workers : SkipProcessed(w)
    \/ \E w \in Workers : ProcessId(w)
    \/ \E w \in Workers : RestartFails(w)
    \/ \E w \in Workers : FinishWorker(w)
    \/ EndRun
    \/ RunRaises


(***************************************************************************)
(* TaskSpec: the loop body of _process_ids for one ID, lines 148-333.      *)
(***************************************************************************)
\* attachments parse_document_info may list for one record
MaxAttachments == 3

DownloadStatuses ==
    {"DOWNLOADED", "SKIPPED_EXISTS", "FAILED_NOT_FOUND", "FAILED_ERROR_PAGE",
     "FAILED_STALLED", "FAILED_TIMEOUT", "FAILED_MISSING"}

\* str(row.get("download_status", "")).startswith("FAILED")
IsFailed(s) ==
    s \in {"FAILED_NOT_FOUND", "FAILED_ERROR_PAGE", "FAILED_STALLED",
           "FAILED_TIMEOUT", "FAILED_MISSING"}

\* parser.is_missing_page: the page holds MISSING_PAGE_PHRASE
is_missing_page(html) == html = "MISSING_PAGE"

\* the statement groups inside "with PerIdTimeout(...)"
WithBlock ==
    {"get_general", "wait_general", "read_general", "get_documents",
     "wait_documents", "read_documents", "download", "off_general",
     "off_documents", "snapshot"}

\* the statement groups that wait for the browser: navigation and readiness
\* wait, selector wait, download completion poll
SuspensionPoints ==
    {"get_general", "wait_general", "read_general", "get_documents",
     "wait_documents", "read_documents", "download"}

NoRows == [guarantees |-> 0, attributes |-> 0, files |-> <<>>]

TaskLocals ==
    /\ armed = FALSE
    /\ expired = FALSE
    /\ expired_in = ""
    /\ status = "OK"
    /\ error_message = ""
    /\ warnings = <<>>
    /\ attributes_rows = 0
    /\ files_rows = <<>>
    /\ attachments = 0
    /\ general_html = ""
    /\ documents_html = ""
    /\ results = <<>>
    /\ emitted = NoRows
    /\ documents_loaded = FALSE
    /\ wait_exceeded = FALSE

TaskIdle ==
    /\ cfg = [mode |-> "offline", main_thread |-> TRUE, per_id_timeout |-> 0]
    /\ t_pc = "none"
    /\ t_index = 1
    /\ TaskLocals

TaskInit ==
    /\ cfg \in [mode : {"live", "offline"}, main_thread : BOOLEAN,
                per_id_timeout : {0, 30}]
    /\ t_pc = "top"
    /\ t_index = 1
    /\ TaskLocals

\* deadline is not None
HasDeadline == cfg.per_id_timeout > 0

\* PerIdTimeout.__enter__ sets the alarm only on the main thread
AlarmSet(seconds, main_thread) == seconds > 0 /\ main_thread

\* lines 148-163: the locals of one iteration, the deadline, the alarm
Begin ==
    /\ t_pc = "top"
    /\ t_pc' = IF cfg.mode = "offline" THEN "off_general" ELSE "get_general"
    /\ armed' = AlarmSet(cfg.per_id_timeout, cfg.main_thread)
    /\ expired' = FALSE
    /\ expired_in' = ""
    /\ status' = "OK"
    /\ error_message' = ""
    /\ warnings' = <<>>
    /\ attributes_rows' = 0
    /\ files_rows' = <<>>
    /\ attachments' = 0
    /\ general_html' = ""
    /\ documents_html' = ""
    /\ results' = <<>>
    /\ emitted' = NoRows
    /\ documents_loaded' = FALSE
    /\ wait_exceeded' = FALSE
    /\ UNCHANGED <<cfg, t_index>>
    /\ UNCHANGED outside_task

\* the clock reaches the deadline while the worker is inside the with block
DeadlinePasses ==
    /\ t_pc \in WithBlock
    /\ HasDeadline
    /\ ~expired
    /\ expired' = TRUE
    /\ expired_in' = IF t_pc \in SuspensionPoints THEN "wait" ELSE "other"
    /\ UNCHANGED <<cfg, t_pc, t_index, armed, status, error_message, warnings,
                   attributes_rows, files_rows, attachments, general_html,
                   documents_html, results, emitted, documents_loaded,
                   wait_exceeded>>
    /\ UNCHANGED outside_task

\* _ensure_time_left raises
NoTimeLeft == HasDeadline /\ expired

\* lines 274-292: except ProcessingTimeout.  __exit__ has cleared the alarm; the
\* window clean-up swallows its own exceptions.
OnProcessingTimeout ==
    /\ status' = "TIMEOUT"
    /\ error_message' = "Timeout after"
    /\ warnings' = Append(warnings, "Per-ID processing timed out")
    /\ armed' = FALSE
    /\ t_pc' = "classify"

\* lines 293-304 and 128-140: except Exception.  A transport-fatal message makes
\* _restart_driver build a new driver, which may itself raise out of the loop.
OnException(fatal) ==
    /\ status' = "ERROR"
    /\ error_message' = "exception"
    /\ warnings' = warnings
    /\ armed' = FALSE
    /\ IF cfg.mode = "live" /\ fatal
       THEN t_pc' \in {"classify", "raised"}
       ELSE t_pc' = "classify"

\* signal delivery: _timeout_handler raises ProcessingTimeout wherever the main
\* thread is inside the with block
AlarmFires ==
    /\ t_pc \in WithBlock
    /\ armed
    /\ expired
    /\ OnProcessingTimeout
    /\ wait_exceeded' = (wait_exceeded \/ t_pc = "wait_general")
    /\ UNCHANGED <<cfg, t_index, expired, expired_in, attributes_rows, files_rows, attachments,
                   general_html, documents_html, results, emitted,
                   documents_loaded>>
    /\ UNCHANGED outside_task

\* lines 202-204: _ensure_time_left, clean_download_dir, driver.get(general_url)
GetGeneral ==
    /\ t_pc = "get_general"
    /\ \/ /\ NoTimeLeft
          /\ OnProcessingTimeout
       \/ /\ ~NoTimeLeft
          /\ \/ /\ t_pc' = "wait_general"
                /\ UNCHANGED <<status, error_message, warnings, armed>>
             \/ \E fatal \in BOOLEAN : OnException(fatal)
    /\ UNCHANGED <<cfg, t_index, expired, expired_in, attributes_rows, files_rows, attachments,
                   general_html, documents_html, results, emitted,
                   documents_loaded, wait_exceeded>>
    /\ UNCHANGED outside_task

\* line 205: wait_for_ready returns, or WebDriverWait raises its
\* TimeoutException once the budget _remaining_seconds gave it is used up
WaitGeneral ==
    /\ t_pc = "wait_general"
    /\ \/ /\ t_pc' = "read_general"
          /\ UNCHANGED <<status, error_message, warnings, armed, wait_exceeded>>
       \/ /\ OnException(FALSE)
          /\ wait_exceeded' = TRUE
    /\ UNCHANGED <<cfg, t_index, expired, expired_in, attributes_rows, files_rows, attachments,
                   general_html, documents_html, results, emitted,
                   documents_loaded>>
    /\ UNCHANGED outside_task

\* attribute rows of the primary page: none when it is the missing page
GeneralRowsUnchecked(html, n) == n

GeneralRows(html, n) == IF is_missing_page(html) THEN 0 ELSE n

\* the secondary page is handled whatever the status
AlwaysNeedsDocuments(st) == TRUE

\* lines 178 and 219: if status != "MISSING"
NeedsDocuments(st) == st # "MISSING"

\* lines 206-217: page_source, is_missing_page, the selector wait, the parse
ReadGeneral ==
    /\ t_pc = "read_general"
    /\ \E html \in {"MISSING_PAGE", "PAGE"} :
         /\ general_html' = html
         /\ IF is_missing_page(html)
            THEN /\ status' = "MISSING"
                 /\ t_pc' = IF NeedsDocuments("MISSING") THEN "get_documents"
                            ELSE "snapshot"
                 /\ attributes_rows' = GeneralRows(html, 1)
                 /\ UNCHANGED <<error_message, warnings, armed>>
            ELSE \/ /\ OnException(FALSE)
                    /\ UNCHANGED attributes_rows
                 \/ \E n \in 0..1, parse_warnings \in {<<>>, <<"parse">>} :
                      /\ attributes_rows' = GeneralRows(html, n)
                      /\ warnings' = warnings \o parse_warnings
                      /\ t_pc' = IF NeedsDocuments(status) THEN "get_documents"
                                 ELSE "snapshot"
                      /\ UNCHANGED <<status, error_message, armed>>
    /\ UNCHANGED <<cfg, t_index, expired, expired_in, files_rows, attachments, documents_html,
                   results, emitted, documents_loaded, wait_exceeded>>
    /\ UNCHANGED outside_task

\* lines 219-221: _ensure_time_left, driver.get(documents_url)
GetDocuments ==
    /\ t_pc = "get_documents"
    /\ \/ /\ NoTimeLeft
          /\ OnProcessingTimeout
          /\ UNCHANGED documents_loaded
       \/ /\ ~NoTimeLeft
          /\ documents_loaded' = TRUE
          /\ \/ /\ t_pc' = "wait_documents"
                /\ UNCHANGED <<status, error_message, warnings, armed>>
             \/ \E fatal \in BOOLEAN : OnException(fatal)
    /\ UNCHANGED <<cfg, t_index, expired, expired_in, attributes_rows, files_rows, attachments,
                   general_html, documents_html, results, emitted, wait_exceeded>>
    /\ UNCHANGED outside_task

\* line 222
WaitDocuments ==
    /\ t_pc = "wait_documents"
    /\ \/ /\ t_pc' = "read_documents"
          /\ UNCHANGED <<status, error_message, warnings, armed>>
       \/ OnException(FALSE)
    /\ UNCHANGED <<cfg, t_index, expired, expired_in, attributes_rows, files_rows, attachments,
                   general_html, documents_html, results, emitted,
                   documents_loaded, wait_exceeded>>
    /\ UNCHANGED outside_task

\* parse_document_info warns when it finds no attachment
DocumentWarnings(m) ==
    IF m = 0 THEN <<"Attachments not found in document blocks">> ELSE <<>>

\* lines 223-236 and 249-258 without attachments
ReadDocuments ==
    /\ t_pc = "read_documents"
    /\ \E html \in {"MISSING_PAGE", "PAGE"} :
         /\ documents_html' = html
         /\ IF is_missing_page(html)
            THEN /\ status' = IF status = "OK" THEN "PARTIAL" ELSE status
                 /\ warnings' = Append(warnings, "Document page missing")
                 /\ t_pc' = "snapshot"
                 /\ UNCHANGED <<error_message, armed, attachments, attributes_rows>>
            ELSE \/ /\ OnException(FALSE)
                    /\ UNCHANGED <<attachments, attributes_rows>>
                 \/ \E m \in 0..MaxAttachments, doc_meta \in 0..1 :
                      /\ attachments' = m
                      /\ warnings' = warnings \o DocumentWarnings(m)
                      /\ IF m > 0
                         THEN /\ t_pc' = "download"
                              /\ UNCHANGED attributes_rows
                         ELSE /\ t_pc' = "snapshot"
                              /\ attributes_rows' = attributes_rows + doc_meta
                      /\ UNCHANGED <<status, error_message, armed>>
    /\ UNCHANGED <<cfg, t_index, expired, expired_in, files_rows, general_html, results,
                   emitted, documents_loaded, wait_exceeded>>
    /\ UNCHANGED outside_task

\* downloader.download_attachments, lines 211-341, one attachment: its row is
\* appended to results, or a browser or file-system call raises out of the
\* function and results is dropped
DownloadOne ==
    /\ t_pc = "download"
    /\ Len(results) < attachments
    /\ \/ /\ \E ds \in DownloadStatuses : results' = Append(results, ds)
          /\ UNCHANGED <<t_pc, status, error_message, warnings, armed>>
       \/ /\ \E fatal \in BOOLEAN : OnException(fatal)
          /\ UNCHANGED results
    /\ UNCHANGED <<cfg, t_index, expired, expired_in, attributes_rows, files_rows, attachments,
                   general_html, documents_html, emitted, documents_loaded,
                   wait_exceeded>>
    /\ UNCHANGED outside_task

\* downloader line 343 and lines 238-258: files_rows is bound, the document
\* metadata rows are added
DownloadReturns ==
    /\ t_pc = "download"
    /\ Len(results) = attachments
    /\ files_rows' = results
    /\ \E doc_meta \in 0..1 : attributes_rows' = attributes_rows + doc_meta
    /\ IF attachments > 0 /\ results = <<>>
       THEN /\ status' = "PARTIAL"
            /\ warnings' = Append(warnings, "Attachments listed but no file rows created")
       ELSE UNCHANGED <<status, warnings>>
    /\ t_pc' = "snapshot"
    /\ UNCHANGED <<cfg, t_index, armed, expired, expired_in, error_message, attachments,
                   general_html, documents_html, results, emitted,
                   documents_loaded, wait_exceeded>>
    /\ UNCHANGED outside_task

\* lines 165-176: offline, the saved generalInformation page
OffGeneral ==
    /\ t_pc = "off_general"
    /\ \/ /\ NoTimeLeft
          /\ OnProcessingTimeout
          /\ UNCHANGED <<general_html, attributes_rows>>
       \/ /\ ~NoTimeLeft
          /\ \E html \in {"", "MISSING_PAGE", "PAGE"} :
               /\ general_html' = html
               /\ IF html = ""
                  THEN /\ status' = "ERROR"
                       /\ error_message' = "Missing offline generalInformation HTML"
                       /\ warnings' = Append(warnings, "Missing offline generalInformation HTML")
                       /\ attributes_rows' = 0
                       /\ t_pc' = IF NeedsDocuments("ERROR") THEN "off_documents"
                                  ELSE "snapshot"
                  ELSE IF is_missing_page(html)
                  THEN /\ status' = "MISSING"
                       /\ attributes_rows' = GeneralRows(html, 1)
                       /\ t_pc' = IF NeedsDocuments("MISSING") THEN "off_documents"
                                  ELSE "snapshot"
                       /\ UNCHANGED <<error_message, warnings>>
                  ELSE \E n \in 0..1, parse_warnings \in {<<>>, <<"parse">>} :
                       /\ attributes_rows' = GeneralRows(html, n)
                       /\ warnings' = warnings \o parse_warnings
                       /\ t_pc' = IF NeedsDocuments(status) THEN "off_documents"
                                  ELSE "snapshot"
                       /\ UNCHANGED <<status, error_message>>
          /\ UNCHANGED armed
    /\ UNCHANGED <<cfg, t_index, expired, expired_in, files_rows, attachments, documents_html,
                   results, emitted, documents_loaded, wait_exceeded>>
    /\ UNCHANGED outside_task

\* _offline_files_rows: one SKIPPED_OFFLINE row per attachment
offline_files_rows(m) == [i \in 1..m |-> "SKIPPED_OFFLINE"]

\* lines 178-199: offline, the saved document-info page
OffDocuments ==
    /\ t_pc = "off_documents"
    /\ \/ /\ NoTimeLeft
          /\ OnProcessingTimeout
          /\ UNCHANGED <<documents_html, attributes_rows, attachments, files_rows,
                         documents_loaded>>
       \/ /\ ~NoTimeLeft
          /\ documents_loaded' = TRUE
          /\ \E html \in {"", "MISSING_PAGE", "PAGE"} :
               /\ documents_html' = html
               /\ IF html = ""
                  THEN /\ status' = IF status = "OK" THEN "PARTIAL" ELSE status
                       /\ warnings' = Append(warnings, "Missing offline document-info HTML")
                       /\ UNCHANGED <<attributes_rows, attachments, files_rows>>
                  ELSE IF is_missing_page(html)
                  THEN /\ status' = IF status = "OK" THEN "PARTIAL" ELSE status
                       /\ warnings' = Append(warnings, "Document page missing")
                       /\ UNCHANGED <<attributes_rows, attachments, files_rows>>
                  ELSE \E m \in 0..MaxAttachments, doc_meta \in 0..1 :
                       /\ attachments' = m
                       /\ warnings' = warnings \o DocumentWarnings(m)
                       /\ files_rows' = offline_files_rows(m)
                       /\ attributes_rows' = attributes_rows + doc_meta
                       /\ UNCHANGED status
          /\ t_pc' = "snapshot"
          /\ UNCHANGED <<error_message, armed>>
    /\ UNCHANGED <<cfg, t_index, expired, expired_in, general_html, results, emitted,
                   wait_exceeded>>
    /\ UNCHANGED outside_task

\* lines 260-272 and PerIdTimeout.__exit__: the HTML snapshots are written, or
\* the write raises
Snapshot ==
    /\ t_pc = "snapshot"
    /\ \/ /\ t_pc' = "classify"
          /\ armed' = FALSE
          /\ UNCHANGED <<status, error_message, warnings>>
       \/ OnException(FALSE)
    /\ UNCHANGED <<cfg, t_index, expired, expired_in, attributes_rows, files_rows, attachments,
                   general_html, documents_html, results, emitted,
                   documents_loaded, wait_exceeded>>
    /\ UNCHANGED outside_task

NumFailed(rows) == Cardinality({i \in DOMAIN rows : IsFailed(rows[i])})

\* the status left as the timed block set it
FinalStatusUncounted(st, rows, err) == st

\* the all-failed test replaced by an any-failed test
FinalStatusAnyFailed(st, rows, err) ==
    IF rows # <<>> /\ NumFailed(rows) > 0 THEN "ERROR"
    ELSE IF st = "OK" /\ err # "" THEN "PARTIAL" ELSE st

\* lines 306-319: the status after the attachment failures are counted
FinalStatus(st, rows, err) ==
    LET after == IF rows # <<>> /\ NumFailed(rows) > 0
                 THEN IF NumFailed(rows) = Len(rows) THEN "ERROR"
                      ELSE IF st = "OK" THEN "PARTIAL" ELSE st
                 ELSE st
    IN  IF after = "OK" /\ err # "" THEN "PARTIAL" ELSE after

\* line 317
FailureWarnings(rows) ==
    IF rows # <<>> /\ NumFailed(rows) > 0
    THEN <<"Attachment failures">>
    ELSE <<>>

\* lines 306-333: the final status, the guarantee row, the rows to the writers
Classify ==
    /\ t_pc = "classify"
    /\ status' = FinalStatus(status, files_rows, error_message)
    /\ warnings' = warnings \o FailureWarnings(files_rows)
    /\ emitted' = [guarantees |-> 1, attributes |-> attributes_rows,
                   files |-> files_rows]
    /\ t_pc' = "emitted"
    /\ UNCHANGED <<cfg, t_index, armed, expired, expired_in, error_message, attributes_rows,
                   files_rows, attachments, general_html, documents_html, results,
                   documents_loaded, wait_exceeded>>
    /\ UNCHANGED outside_task

\* lines 335-378 and the loop header: on to the next ID of the slice
NextId ==
    /\ t_pc = "emitted"
    /\ t_index' = t_index + 1
    /\ t_pc' = IF t_index < Len(Selection) THEN "top" ELSE "end"
    /\ UNCHANGED <<cfg, armed, expired, expired_in, status, error_message, warnings,
                   attributes_rows, files_rows, attachments, general_html,
                   documents_html, results, emitted, documents_loaded,
                   wait_exceeded>>
    /\ UNCHANGED outside_task

TaskNext ==
    \/ Begin
    \/ DeadlinePasses
    \/ AlarmFires
    \/ GetGeneral
    \/ WaitGeneral
    \/ ReadGeneral
    \/ GetDocuments
    \/ WaitDocuments
    \/ ReadDocuments
    \/ DownloadOne
    \/ DownloadReturns
    \/ OffGeneral
    \/ OffDocuments
    \/ Snapshot
    \/ Classify
    \/ NextId

(***************************************************************************)
(* PoolSpec: the workers of one run of main() with --workers > 1 and force *)
(* unset, each in its loop of _process_ids, statement group by statement   *)
(* group around "with state_lock" (lines 335-362).                         *)
(***************************************************************************)
\* the worklist is the range 1..NumPoolIds
NumPoolIds == 4

PoolIds == [i \in 1..NumPoolIds |-> i]

PoolWorkers == 1..2

\* outcomes of the pipeline the bookkeeping tells apart here.
\* Rows _attributes_rows and _document_metadata_rows may hand to the union: a
\* second field of the section, a row without section, a row without field name
PoolRows ==
    <<[section |-> "s", field_name |-> "g"], [section |-> "", field_name |-> "f"],
      [section |-> "t", field_name |-> ""]>>

\* attribute_union.json as an earlier run left it
OldUnion == {<<"old", "x">>}

\* the records worker 1 fetches carry the row of Outcomes, those of worker 2
\* the rows of PoolRows
PoolOutcomes(w) ==
    {o \in Outcomes : o.status = "ERROR"}
    \cup {[status |-> "OK", files_rows |-> 1,
           attributes_rows |-> IF w = 1 THEN <<AttrRow>> ELSE PoolRows]}

NoOutcome == [status |-> "", attributes_rows |-> <<>>, files_rows |-> 0]

PoolSlice(w) == Slice(PoolIds, pool.workers, w)

\* the statement groups between __enter__ and __exit__ of "with state_lock"
CriticalSection == {"union", "append", "retry", "checkpoint"}

\* statement groups that call the browser or read or write a file
DoesIO == {"fetch", "union", "append", "checkpoint", "flush"}

PoolIdle ==
    /\ pool = [workers |-> 1, before |-> {}]
    /\ state_lock = 0
    /\ p_pc = [w \in PoolWorkers |-> "none"]
    /\ p_idx = [w \in PoolWorkers |-> 1]
    /\ p_outcome = [w \in PoolWorkers |-> NoOutcome]
    /\ shared = [processed_ids |-> {}, processed_file |-> <<>>,
                 retry_state |-> <<>>, attribute_union |-> {},
                 checkpoint |-> 0]
    /\ p_done = [w \in PoolWorkers |-> {}]

\* main(), lines 555-594: the processed IDs are loaded, the lock is created and
\* one _process_ids is submitted per non-empty slice
PoolInit ==
    /\ pool \in [workers : {2}, before : {{}, {1}}]
    /\ state_lock = 0
    /\ p_pc = [w \in PoolWorkers |->
                 IF Slice(PoolIds, pool.workers, w) # <<>> THEN "top" ELSE "none"]
    /\ p_idx = [w \in PoolWorkers |-> 1]
    /\ p_outcome = [w \in PoolWorkers |-> NoOutcome]
    /\ shared = [processed_ids |-> pool.before,
                 processed_file |-> IF 1 \in pool.before THEN <<1>> ELSE <<>>,
                 retry_state |-> <<>>,
                 attribute_union |-> IF 1 \in pool.before THEN OldUnion ELSE {},
                 checkpoint |-> 0]
    /\ p_done = [w \in PoolWorkers |-> {}]

PoolAt(w) == PoolSlice(w)[p_idx[w]]

\* lines 143-146: the loop header and the skip test
PoolTop(w) ==
    /\ p_pc[w] = "top"
    /\ IF p_idx[w] > Len(PoolSlice(w))
       THEN /\ p_pc' = [p_pc EXCEPT ![w] = "flush"]
            /\ UNCHANGED p_idx
       ELSE IF PoolAt(w) \in shared.processed_ids
       THEN /\ p_idx' = [p_idx EXCEPT ![w] = @ + 1]
            /\ UNCHANGED p_pc
       ELSE /\ p_pc' = [p_pc EXCEPT ![w] = "fetch"]
            /\ UNCHANGED p_idx
    /\ UNCHANGED <<pool, state_lock, p_outcome, shared, p_done>>
    /\ UNCHANGED outside_pool

\* lines 148-333: the pipeline of the ID, its rows to the writers
PoolFetch(w) ==
    /\ p_pc[w] = "fetch"
    /\ \E o \in PoolOutcomes(w) : p_outcome' = [p_outcome EXCEPT ![w] = o]
    /\ p_pc' = [p_pc EXCEPT ![w] = "acquire"]
    /\ UNCHANGED <<pool, state_lock, p_idx, shared, p_done>>
    /\ UNCHANGED outside_pool

\* lines 293-304: the driver cannot be restarted, the exception leaves the loop
PoolAbort(w) ==
    /\ p_pc[w] = "fetch"
    /\ p_pc' = [p_pc EXCEPT ![w] = "raised"]
    /\ UNCHANGED <<pool, state_lock, p_idx, p_outcome, shared, p_done>>
    /\ UNCHANGED outside_pool

\* the lock is taken whoever holds it
LockIgnored(w) == TRUE

\* threading.Lock.__enter__ returns only when no thread holds the lock
LockFree(w) == state_lock = 0

\* line 335: with state_lock
PoolAcquire(w) ==
    /\ p_pc[w] = "acquire"
    /\ LockFree(w)
    /\ state_lock' = w
    /\ p_pc' = [p_pc EXCEPT ![w] = "union"]
    /\ UNCHANGED <<pool, p_idx, p_outcome, shared, p_done>>
    /\ UNCHANGED outside_pool

\* lines 336-338: update_attribute_union reads and rewrites attribute_union.json
PoolUnion(w) ==
    /\ p_pc[w] = "union"
    /\ shared' = [shared EXCEPT !.attribute_union =
                    update_attribute_union(@, p_outcome[w].attributes_rows)]
    /\ p_pc' = [p_pc EXCEPT ![w] = "append"]
    /\ UNCHANGED <<pool, state_lock, p_idx, p_outcome, p_done>>
    /\ UNCHANGED outside_pool

\* lines 339-340: append_processed_id writes the line, the set gets the ID
PoolAppend(w) ==
    /\ p_pc[w] = "append"
    /\ shared' = [shared EXCEPT !.processed_file = Append(@, PoolAt(w)),
                                !.processed_ids = @ \cup {PoolAt(w)}]
    /\ p_done' = [p_done EXCEPT ![w] = @ \cup {PoolAt(w)}]
    /\ p_pc' = [p_pc EXCEPT ![w] = "retry"]
    /\ UNCHANGED <<pool, state_lock, p_idx, p_outcome>>
    /\ UNCHANGED outside_pool

\* lines 342-352: the worker's stats and the shared retry map
PoolRetry(w) ==
    /\ p_pc[w] = "retry"
    /\ shared' = [shared EXCEPT !.retry_state =
                    UpdateRetry(@, PoolAt(w), p_outcome[w].status)]
    /\ p_pc' = [p_pc EXCEPT ![w] = "checkpoint"]
    /\ UNCHANGED <<pool, state_lock, p_idx, p_outcome, p_done>>
    /\ UNCHANGED outside_pool

\* threading.Lock.__exit__ at the end of "with state_lock", on a normal and on
\* an exceptional exit
Release(lock, w) == IF lock = w THEN 0 ELSE lock

\* lines 354-362: save_json writes checkpoint.json, then the lock is released
PoolCheckpoint(w) ==
    /\ p_pc[w] = "checkpoint"
    /\ shared' = [shared EXCEPT !.checkpoint = PoolAt(w)]
    /\ state_lock' = Release(state_lock, w)
    /\ p_pc' = [p_pc EXCEPT ![w] = "sleep"]
    /\ UNCHANGED <<pool, p_idx, p_outcome, p_done>>
    /\ UNCHANGED outside_pool

\* lines 335-362: a file operation of the critical section raises (load_json,
\* the append, save_json); the with statement releases the lock and the
\* exception leaves the loop through the finally clause
PoolSectionRaises(w) ==
    /\ p_pc[w] \in CriticalSection
    /\ state_lock' = Release(state_lock, w)
    /\ p_pc' = [p_pc EXCEPT ![w] = "raised"]
    /\ UNCHANGED <<pool, p_idx, p_outcome, shared, p_done>>
    /\ UNCHANGED outside_pool

\* lines 364-378: the log line and the politeness sleep, then the next ID
PoolSleep(w) ==
    /\ p_pc[w] = "sleep"
    /\ p_idx' = [p_idx EXCEPT ![w] = @ + 1]
    /\ p_pc' = [p_pc EXCEPT ![w] = "top"]
    /\ UNCHANGED <<pool, state_lock, p_outcome, shared, p_done>>
    /\ UNCHANGED outside_pool

\* lines 380-388: the three writers are flushed and the worker returns
PoolFlush(w) ==
    /\ p_pc[w] = "flush"
    /\ p_pc' = [p_pc EXCEPT ![w] = "returned"]
    /\ UNCHANGED <<pool, state_lock, p_idx, p_outcome, shared, p_done>>
    /\ UNCHANGED outside_pool

PoolNext ==
    \/ \E w \in PoolWorkers : PoolTop(w)
    \/ \E w \in PoolWorkers : PoolFetch(w)
    \/ \E w \in PoolWorkers : PoolAbort(w)
    \/ \E w \in PoolWorkers : PoolAcquire(w)
    \/ \E w \in PoolWorkers : PoolUnion(w)
    \/ \E w \in PoolWorkers : PoolAppend(w)
    \/ \E w \in PoolWorkers : PoolRetry(w)
    \/ \E w \in PoolWorkers : PoolCheckpoint(w)
    \/ \E w \in PoolWorkers : PoolSectionRaises(w)
    \/ \E w \in PoolWorkers : PoolSleep(w)
    \/ \E w \in PoolWorkers : PoolFlush(w)

(***************************************************************************)
(* PollSpec: downloader._wait_for_download_result, lines 146-193, one      *)
(* statement group at a time, next to the browser that writes the download *)
(* directory.  The statements of the poll take no time; the clock advances *)
(* while the poll sleeps and after it has returned.                        *)
(***************************************************************************)
\* stable_seconds, scaled down from its default
stable_seconds == 2
\* the last second of a behaviour
MaxClock == 6

\* the download as Chrome writes it, and the file it is renamed to
PartName == "a.pdf.crdownload"

DoneName == "a.pdf"

FileNames == {PartName, DoneName}

Absent == 0 - 1

\* p.name.endswith(".crdownload")
IsInProgress(name) == name = PartName

NoEntry == [size |-> Absent, last_change |-> 0]

NoResult == [path |-> "", status |-> "NONE"]

PollEnded == d_pc \in {"returned", "raised"}

PollIdle ==
    /\ poll_cfg = [timeout |-> 0, stall_seconds |-> 0]
    /\ clock = 0
    /\ dir = [n \in FileNames |-> Absent]
    /\ marker = ""
    /\ d_pc = "none"
    /\ progress = [n \in FileNames |-> NoEntry]
    /\ new_files = {}
    /\ wake = 0
    /\ result = NoResult
    /\ changed_at = [n \in FileNames |-> 0]

\* lines 154-155: deadline = time.time() + timeout, progress = {}
PollInit ==
    /\ poll_cfg \in [timeout : {2, 4}, stall_seconds : {3}]
    /\ clock = 0
    /\ dir = [n \in FileNames |-> Absent]
    /\ marker = ""
    /\ d_pc = "loop"
    /\ progress = [n \in FileNames |-> NoEntry]
    /\ new_files = {}
    /\ wake = 0
    /\ result = NoResult
    /\ changed_at = [n \in FileNames |-> 0]

deadline == poll_cfg.timeout

\* a second passes: only while the poll is in time.sleep(1) or has returned
Tick ==
    /\ clock < MaxClock
    /\ \/ d_pc = "sleeping" /\ clock < wake
       \/ PollEnded
    /\ clock' = clock + 1
    /\ UNCHANGED <<poll_cfg, dir, marker, d_pc, progress, new_files, wake, result,
                   changed_at>>
    /\ UNCHANGED outside_poll

\* Chrome creates the .crdownload file, or writes more of it
BrowserWrites ==
    /\ ~PollEnded
    /\ dir[DoneName] = Absent
    /\ dir[PartName] < 2
    /\ dir' = [dir EXCEPT ![PartName] = IF @ = Absent THEN 1 ELSE @ + 1]
    /\ changed_at' = [changed_at EXCEPT ![PartName] = clock]
    /\ UNCHANGED <<poll_cfg, clock, marker, d_pc, progress, new_files, wake, result>>
    /\ UNCHANGED outside_poll

\* Chrome finishes: the .crdownload file is renamed to its final name (a small
\* file may appear under its final name at once)
BrowserCompletes ==
    /\ ~PollEnded
    /\ dir[DoneName] = Absent
    /\ dir' = [dir EXCEPT ![PartName] = Absent,
                          ![DoneName] = IF dir[PartName] = Absent THEN 1
                                        ELSE dir[PartName]]
    /\ changed_at' = [changed_at EXCEPT ![DoneName] = clock]
    /\ UNCHANGED <<poll_cfg, clock, marker, d_pc, progress, new_files, wake, result>>
    /\ UNCHANGED outside_poll

\* the server answers the download with its error page
BrowserShowsError ==
    /\ ~PollEnded
    /\ marker = ""
    /\ dir[DoneName] = Absent
    /\ marker' = "FAILED_ERROR_PAGE"
    /\ UNCHANGED <<poll_cfg, clock, dir, d_pc, progress, new_files, wake, result,
                   changed_at>>
    /\ UNCHANGED outside_poll

\* line 156 and line 193: while time.time() < deadline
PollLoop ==
    /\ d_pc = "loop"
    /\ IF clock < deadline
       THEN /\ d_pc' = "detect"
            /\ UNCHANGED result
       ELSE /\ d_pc' = "returned"
            /\ result' = [path |-> "", status |-> "FAILED_TIMEOUT"]
    /\ UNCHANGED <<poll_cfg, clock, dir, marker, progress, new_files, wake,
                   changed_at>>
    /\ UNCHANGED outside_poll

\* lines 157-159: _detect_download_error
PollDetect ==
    /\ d_pc = "detect"
    /\ IF marker # ""
       THEN /\ d_pc' = "returned"
            /\ result' = [path |-> "", status |-> marker]
       ELSE /\ d_pc' = "list"
            /\ UNCHANGED result
    /\ UNCHANGED <<poll_cfg, clock, dir, marker, progress, new_files, wake,
                   changed_at>>
    /\ UNCHANGED outside_poll

\* lines 161-164: the listing of the directory
PollList ==
    /\ d_pc = "list"
    /\ new_files' = {n \in FileNames : dir[n] # Absent}
    /\ d_pc' = "stat"
    /\ UNCHANGED <<poll_cfg, clock, dir, marker, progress, wake, result, changed_at>>
    /\ UNCHANGED outside_poll

\* lines 166-172, one file: the entry after its size is read
Observe(entry, size, now) ==
    IF size # entry.size THEN [size |-> size, last_change |-> now] ELSE entry

\* lines 166-172: path.stat() of every listed file; it raises FileNotFoundError
\* for a file that has been renamed since the listing
PollStat ==
    /\ d_pc = "stat"
    /\ IF \E n \in new_files : dir[n] = Absent
       THEN /\ d_pc' = "raised"
            /\ UNCHANGED progress
       ELSE /\ progress' = [n \in FileNames |->
                              IF n \in new_files
                              THEN Observe(progress[n], dir[n], clock)
                              ELSE progress[n]]
            /\ d_pc' = "completed"
    /\ UNCHANGED <<poll_cfg, clock, dir, marker, new_files, wake, result, changed_at>>
    /\ UNCHANGED outside_poll

\* line 178: time.time() - entry["last_change"] >= stable_seconds
Stable(entry, now) == now - entry.last_change >= stable_seconds

\* lines 174-179: the completed files
PollCompleted ==
    /\ d_pc = "completed"
    /\ IF DoneName \in new_files /\ Stable(progress[DoneName], clock)
       THEN /\ d_pc' = "returned"
            /\ result' = [path |-> DoneName, status |-> ""]
       ELSE /\ d_pc' = "in_progress"
            /\ UNCHANGED result
    /\ UNCHANGED <<poll_cfg, clock, dir, marker, progress, new_files, wake,
                   changed_at>>
    /\ UNCHANGED outside_poll

\* lines 181-189: the in-progress files.  max(..., key=st_mtime) raises when the
\* file has been renamed since the listing; unlink removes the stalled file, or
\* raises an OSError that is swallowed and leaves the file where it is.
PollInProgress ==
    /\ d_pc = "in_progress"
    /\ IF PartName \notin new_files
       THEN /\ d_pc' = "sleep"
            /\ UNCHANGED <<result, dir>>
       ELSE IF dir[PartName] = Absent
       THEN /\ d_pc' = "raised"
            /\ UNCHANGED <<result, dir>>
       ELSE IF clock - progress[PartName].last_change >= poll_cfg.stall_seconds
       THEN /\ d_pc' = "returned"
            /\ result' = [path |-> "", status |-> "FAILED_STALLED"]
            /\ \/ dir' = [dir EXCEPT ![PartName] = Absent]
               \/ UNCHANGED dir
       ELSE /\ d_pc' = "sleep"
            /\ UNCHANGED <<result, dir>>
    /\ UNCHANGED <<poll_cfg, clock, marker, progress, new_files, wake, changed_at>>
    /\ UNCHANGED outside_poll

\* line 191: time.sleep(1) begins
PollSleep ==
    /\ d_pc = "sleep"
    /\ wake' = clock + 1
    /\ d_pc' = "sleeping"
    /\ UNCHANGED <<poll_cfg, clock, dir, marker, progress, new_files, result,
                   changed_at>>
    /\ UNCHANGED outside_poll

\* line 191: time.sleep(1) returns
PollWake ==
    /\ d_pc = "sleeping"
    /\ clock >= wake
    /\ d_pc' = "loop"
    /\ UNCHANGED <<poll_cfg, clock, dir, marker, progress, new_files, wake, result,
                   changed_at>>
    /\ UNCHANGED outside_poll

PollNext ==
    \/ Tick
    \/ BrowserWrites
    \/ BrowserCompletes
    \/ BrowserShowsError
    \/ PollLoop
    \/ PollDetect
    \/ PollList
    \/ PollStat
    \/ PollCompleted
    \/ PollInProgress
    \/ PollSleep
    \/ PollWake

(***************************************************************************)
(* SessionSpec: the browser sessions of one worker, from build_driver at   *)
(* line 123 to the finally clause of lines 384-386.                        *)
(***************************************************************************)
\* IDs in the worker's slice
NumSessionIds == 3

SessionIdle ==
    /\ s_mode = "offline"
    /\ s_pc = "none"
    /\ s_index = 1
    /\ driver = 0
    /\ open_sessions = {}
    /\ created = 0
    /\ s_status = "OK"
    /\ s_error = <<>>
    /\ s_restarted = FALSE
    /\ exit_route = ""

\* line 107: driver = None
SessionInit ==
    /\ s_mode \in {"live", "offline"}
    /\ s_pc = "startup"
    /\ s_index = 1
    /\ driver = 0
    /\ open_sessions = {}
    /\ created = 0
    /\ s_status = "OK"
    /\ s_error = <<>>
    /\ s_restarted = FALSE
    /\ exit_route = ""

\* lines 119-126: build_driver in live mode; when it raises, the function is
\* left before the try statement of line 142
SessStartup ==
    /\ s_pc = "startup"
    /\ IF s_mode = "live"
       THEN \/ /\ created' = created + 1
               /\ driver' = created + 1
               /\ open_sessions' = open_sessions \cup {created + 1}
               /\ s_pc' = "top"
               /\ UNCHANGED exit_route
            \/ /\ s_pc' = "exited"
               /\ exit_route' = "startup failed"
               /\ UNCHANGED <<driver, open_sessions, created>>
       ELSE /\ s_pc' = "top"
            /\ UNCHANGED <<driver, open_sessions, created, exit_route>>
    /\ UNCHANGED <<s_mode, s_status, s_error, s_restarted, s_index>>
    /\ UNCHANGED outside_session

\* line 143: the loop header
SessTop ==
    /\ s_pc = "top"
    /\ s_pc' = IF s_index > NumSessionIds THEN "flush" ELSE "work"
    /\ UNCHANGED <<s_mode, s_status, s_error, s_restarted, s_index, driver, open_sessions, created, exit_route>>
    /\ UNCHANGED outside_session

\* texts, as the sequences of their characters: what str(exc) can be
TextInvalidSessionId ==
    <<"i", "n", "v", "a", "l", "i", "d", " ", "s", "e", "s", "s", "i", "o",
      "n", " ", "i", "d">>

TextConnectionResetNet ==
    <<"n", "e", "t", ":", ":", "E", "R", "R", "_", "C", "O", "N", "N", "E",
      "C", "T", "I", "O", "N", "_", "R", "E", "S", "E", "T">>

TextChromeNotReachable ==
    <<"c", "h", "r", "o", "m", "e", " ", "n", "o", "t", " ", "r", "e", "a",
      "c", "h", "a", "b", "l", "e">>

TextDisconnectedDevTools ==
    <<"d", "i", "s", "c", "o", "n", "n", "e", "c", "t", "e", "d", ":", " ",
      "n", "o", "t", " ", "c", "o", "n", "n", "e", "c", "t", "e", "d">>

TextNoSuchWindow ==
    <<"n", "o", " ", "s", "u", "c", "h", " ", "w", "i", "n", "d", "o", "w">>

TextConnectionResetPeer ==
    <<"C", "o", "n", "n", "e", "c", "t", "i", "o", "n", " ", "r", "e", "s",
      "e", "t", " ", "b", "y", " ", "p", "e", "e", "r">>

ExceptionTexts ==
    {TextInvalidSessionId, TextConnectionResetNet, TextChromeNotReachable,
     TextDisconnectedDevTools, TextNoSuchWindow, TextConnectionResetPeer}

\* lines 299-302: the four substrings looked for
PatInvalidSession ==
    <<"i", "n", "v", "a", "l", "i", "d", " ", "s", "e", "s", "s", "i", "o",
      "n", " ", "i", "d">>

PatConnectionReset ==
    <<"e", "r", "r", "_", "c", "o", "n", "n", "e", "c", "t", "i", "o", "n",
      "_", "r", "e", "s", "e", "t">>

PatNotReachable ==
    <<"c", "h", "r", "o", "m", "e", " ", "n", "o", "t", " ", "r", "e", "a",
      "c", "h", "a", "b", "l", "e">>

PatDisconnected ==
    <<"d", "i", "s", "c", "o", "n", "n", "e", "c", "t", "e", "d">>

FatalPatterns ==
    {PatInvalidSession, PatConnectionReset, PatNotReachable, PatDisconnected}

UpperCase ==
    <<"A", "B", "C", "D", "E", "F", "G", "H", "I", "J", "K", "L", "M", "N",
      "O", "P", "Q", "R", "S", "T", "U", "V", "W", "X", "Y", "Z">>

LowerCase ==
    <<"a", "b", "c", "d", "e", "f", "g", "h", "i", "j", "k", "l", "m", "n",
      "o", "p", "q", "r", "s", "t", "u", "v", "w", "x", "y", "z">>

\* str.lower() on one character
LowerChar(ch) ==
    IF \E i \in DOMAIN UpperCase : UpperCase[i] = ch
    THEN LowerCase[CHOOSE i \in DOMAIN UpperCase : UpperCase[i] = ch]
    ELSE ch

\* str.lower()
str_lower(text) == [i \in DOMAIN text |-> LowerChar(text[i])]

\* sub in text
Contains(text, sub) ==
    \E i \in 0..(Len(text) - Len(sub)) : SubSeq(text, i + 1, i + Len(sub)) = sub

\* the match without the lower() of line 297
IsTransportFatalCaseSensitive(text) ==
    \E pattern \in FatalPatterns : Contains(text, pattern)

\* lines 297-303: message = str(exc).lower(); one of the substrings is in it
IsTransportFatal(text) ==
    \E pattern \in FatalPatterns : Contains(str_lower(text), pattern)

\* lines 148-304: the pipeline of one ID ends normally, with a timeout or with
\* an exception; the handlers set status and error_message, and a
\* transport-fatal message in live mode calls _restart_driver
SessWork ==
    /\ s_pc = "work"
    /\ s_restarted' = FALSE
    /\ \/ /\ s_status' \in {"OK", "MISSING", "PARTIAL"}
          /\ s_error' = <<>>
          /\ s_pc' = "bookkeeping"
       \/ /\ s_status' = "TIMEOUT"
          /\ s_error' = <<"T", "i", "m", "e", "o", "u", "t">>
          /\ s_pc' = "bookkeeping"
       \/ \E text \in ExceptionTexts :
             /\ s_status' = "ERROR"
             /\ s_error' = text
             /\ s_pc' = IF s_mode = "live" /\ IsTransportFatal(text)
                        THEN "restart_quit" ELSE "bookkeeping"
    /\ UNCHANGED <<s_mode, s_index, driver, open_sessions, created, exit_route>>
    /\ UNCHANGED outside_session

\* lines 132-136: the old driver is quit; an exception of quit is swallowed
SessRestartQuit ==
    /\ s_pc = "restart_quit"
    /\ open_sessions' = open_sessions \ {driver}
    /\ s_pc' = "restart_build"
    /\ UNCHANGED <<s_mode, s_status, s_error, s_restarted, s_index, driver, created, exit_route>>
    /\ UNCHANGED outside_session

\* lines 137-140: the new driver is built and bound, or build_driver raises out
\* of the except clause with driver still bound to the old session
SessRestartBuild ==
    /\ s_pc = "restart_build"
    /\ \/ /\ created' = created + 1
          /\ driver' = created + 1
          /\ open_sessions' = open_sessions \cup {created + 1}
          /\ s_pc' = "bookkeeping"
          /\ s_restarted' = TRUE
          /\ UNCHANGED exit_route
       \/ /\ s_pc' = "finally"
          /\ exit_route' = "restart failed"
          /\ UNCHANGED <<driver, open_sessions, created, s_restarted>>
    /\ UNCHANGED <<s_mode, s_status, s_error, s_index>>
    /\ UNCHANGED outside_session

\* lines 306-378: the rows go to the writers and the state files are updated, or
\* one of these writes raises
SessBookkeeping ==
    /\ s_pc = "bookkeeping"
    /\ \/ /\ s_index' = s_index + 1
          /\ s_pc' = "top"
          /\ UNCHANGED exit_route
       \/ /\ s_pc' = "finally"
          /\ exit_route' = "uncaught exception"
          /\ UNCHANGED s_index
    /\ UNCHANGED <<s_mode, s_status, s_error, s_restarted, driver, open_sessions, created>>
    /\ UNCHANGED outside_session

\* lines 380-382: the writers are flushed, or a flush raises
SessFlush ==
    /\ s_pc = "flush"
    /\ s_pc' = "finally"
    /\ exit_route' \in {"end of worklist", "uncaught exception"}
    /\ UNCHANGED <<s_mode, s_status, s_error, s_restarted, s_index, driver, open_sessions, created>>
    /\ UNCHANGED outside_session

\* the finally clause quits nothing
FinallyNeverQuits(d) == FALSE

\* line 385: if driver is not None
FinallyQuits(d) == d # 0

\* lines 384-388: finally
SessFinally ==
    /\ s_pc = "finally"
    /\ open_sessions' = IF FinallyQuits(driver) THEN open_sessions \ {driver}
                        ELSE open_sessions
    /\ s_pc' = "exited"
    /\ UNCHANGED <<s_mode, s_status, s_error, s_restarted, s_index, driver, created, exit_route>>
    /\ UNCHANGED outside_session

SessionNext ==
    \/ SessStartup
    \/ SessTop
    \/ SessWork
    \/ SessRestartQuit
    \/ SessRestartBuild
    \/ SessBookkeeping
    \/ SessFlush
    \/ SessFinally

(***************************************************************************)
(* PlanSpec: main() from the load of the retry queue to the slices handed  *)
(* to the workers, lines 544-594, with parse_ids, lines 390-404.           *)
(***************************************************************************)
\* longest --ids list
MaxListLen == 3

PlanIdSet == {1, 2, 3}

QueueKeys == {1, 2}

PlanWorkers == 1..2

\* config.py line 41
DEFAULT_TEST_IDS == <<1962721, 11, 1, 196221>>

\* None for an integer argument
NoneInt == 0 - 1

SeqsUpTo(S, n) == UNION {[1..k -> S] : k \in 0..n}

\* ids[:n] for n >= 0
Take(s, n) == SubSeq(s, 1, IF n < Len(s) THEN n ELSE Len(s))

\* list(range(a, b + 1))
RangeList(a, b) == [i \in 1..(IF b >= a THEN b - a + 1 ELSE 0) |-> a + i - 1]

\* dicts a retry_queue.json can hold: distinct keys, attempts from 1
QueueFiles ==
    {d \in SeqsUpTo([k : QueueKeys, v : 1..max_retries], Cardinality(QueueKeys)) :
        \A i, j \in DOMAIN d : i # j => d[i].k # d[j].k}

\* the command lines: --ids, or --start-id and --end-id, or neither
CommandLines ==
    {a \in [ids : SeqsUpTo(PlanIdSet, MaxListLen),
            start_id : PlanIdSet \cup {NoneInt},
            end_id : PlanIdSet \cup {NoneInt},
            max_ids : {NoneInt, 2},
            skip_retries : BOOLEAN,
            workers : PlanWorkers] :
        /\ (a.start_id = NoneInt) = (a.end_id = NoneInt)
        /\ a.ids # <<>> => a.start_id = NoneInt}

PlanIdle ==
    /\ cli = [ids |-> <<>>, start_id |-> NoneInt, end_id |-> NoneInt,
              max_ids |-> NoneInt, skip_retries |-> FALSE, workers |-> 1]
    /\ queue_file = <<>>
    /\ plan_pc = "none"
    /\ plan_retry_ids = <<>>
    /\ plan_ids = <<>>
    /\ slices = [w \in PlanWorkers |-> <<>>]

\* line 536: args = parser.parse_args()
PlanInit ==
    /\ cli \in CommandLines
    /\ queue_file \in QueueFiles
    /\ plan_pc = "load"
    /\ plan_retry_ids = <<>>
    /\ plan_ids = <<>>
    /\ slices = [w \in PlanWorkers |-> <<>>]

\* parse_ids, lines 391-399: the selection and its cut to --max-ids
select_ids(a) ==
    LET chosen == IF a.ids # <<>> THEN a.ids
                  ELSE IF a.start_id # NoneInt /\ a.end_id # NoneInt
                       THEN RangeList(a.start_id, a.end_id)
                       ELSE DEFAULT_TEST_IDS
    IN  IF a.max_ids # NoneInt THEN Take(chosen, a.max_ids) ELSE chosen

\* lines 544-545
PlanLoad ==
    /\ plan_pc = "load"
    /\ plan_retry_ids' = RetryIds(queue_file)
    /\ plan_pc' = "parse"
    /\ UNCHANGED <<cli, queue_file, plan_ids, slices>>
    /\ UNCHANGED outside_plan

\* line 547 with parse_ids, lines 390-404
PlanParse ==
    /\ plan_pc = "parse"
    /\ plan_ids' = IF ~cli.skip_retries
                   THEN parse_ids(select_ids(cli), plan_retry_ids)
                   ELSE select_ids(cli)
    /\ plan_pc' = "parsed"
    /\ UNCHANGED <<cli, queue_file, plan_retry_ids, slices>>
    /\ UNCHANGED outside_plan

\* lines 548-550: nothing to process
PlanNoIds ==
    /\ plan_pc = "parsed"
    /\ plan_ids = <<>>
    /\ plan_pc' = "returned"
    /\ UNCHANGED <<cli, queue_file, plan_retry_ids, plan_ids, slices>>
    /\ UNCHANGED outside_plan

\* lines 559-594: one worker with the whole list, or one slice per worker
PlanSlice ==
    /\ plan_pc = "parsed"
    /\ plan_ids # <<>>
    /\ slices' = [w \in PlanWorkers |-> Slice(plan_ids, cli.workers, w)]
    /\ plan_pc' = "started"
    /\ UNCHANGED <<cli, queue_file, plan_retry_ids, plan_ids>>
    /\ UNCHANGED outside_plan

PlanNext ==
    \/ PlanLoad
    \/ PlanParse
    \/ PlanNoIds
    \/ PlanSlice

(***************************************************************************)
(* WriterSpec: one ParquetBatchWriter under any sequence of add() and      *)
(* flush() calls, storage.py lines 107-127.                                *)
(***************************************************************************)
\* records added to the writer in one behaviour
MaxRecords == 5

\* flush() calls in a row
MaxStreak == 3

WriterIdle ==
    /\ w_batch = <<>>
    /\ w_files = {}
    /\ w_pc = "none"
    /\ w_next = 1
    /\ w_last = ""
    /\ w_streak = 0

\* __init__, lines 108-112
WriterInit ==
    /\ w_batch = <<>>
    /\ w_files = {}
    /\ w_pc = "open"
    /\ w_next = 1
    /\ w_last = ""
    /\ w_streak = 0

\* the records of one add() call, numbered in the order they are added
NewRecords(k) == [i \in 1..k |-> w_next + i - 1]

\* add(records), lines 114-117, returning normally
WriterAddCall(k) ==
    /\ w_pc = "open"
    /\ w_next + k - 1 <= MaxRecords
    /\ LET r == WriterAdd(w_batch, NewRecords(k), "guarantees", 1, 1, w_files)
       IN  /\ w_batch' = r.batch
           /\ w_files' = r.files
    /\ w_next' = w_next + k
    /\ w_last' = "add"
    /\ w_streak' = 0
    /\ UNCHANGED w_pc
    /\ UNCHANGED outside_writer

\* add(records) when to_parquet raises in its flush (line 126): the batch is
\* extended and not cleared, no file is complete
WriterAddRaises(k) ==
    /\ w_pc = "open"
    /\ w_next + k - 1 <= MaxRecords
    /\ Len(w_batch) + k >= batch_size
    /\ w_batch' = w_batch \o NewRecords(k)
    /\ w_next' = w_next + k
    /\ w_last' = "add"
    /\ w_streak' = 0
    /\ w_pc' = "raised"
    /\ UNCHANGED w_files
    /\ UNCHANGED outside_writer

\* flush(), lines 119-127, returning normally
WriterFlushCall ==
    /\ w_pc = "open"
    /\ w_streak < MaxStreak
    /\ LET r == WriterFlush(w_batch, "guarantees", 1, 1, w_files)
       IN  /\ w_batch' = r.batch
           /\ w_files' = r.files
    /\ w_last' = "flush"
    /\ w_streak' = w_streak + 1
    /\ UNCHANGED <<w_pc, w_next>>
    /\ UNCHANGED outside_writer

\* flush() when to_parquet raises (line 126)
WriterFlushRaises ==
    /\ w_pc = "open"
    /\ w_streak < MaxStreak
    /\ w_batch # <<>>
    /\ w_last' = "flush"
    /\ w_streak' = w_streak + 1
    /\ w_pc' = "raised"
    /\ UNCHANGED <<w_batch, w_files, w_next>>
    /\ UNCHANGED outside_writer

WriterNext ==
    \/ \E k \in 0..(batch_size + 1) : WriterAddCall(k)
    \/ \E k \in 0..(batch_size + 1) : WriterAddRaises(k)
    \/ WriterFlushCall
    \/ WriterFlushRaises

(***************************************************************************)
(* DownloadSpec: downloader.download_attachments, lines 196-343, over the  *)
(* attachment list of one record, one statement group at a time, in a      *)
(* first call and in a later call for the same record.  The completion     *)
(* poll of line 264 is taken as one step whose outcome the download        *)
(* directory allows (PollSpec models the poll itself).  Chrome goes on     *)
(* writing a download after the attempt that started it has ended.         *)
(***************************************************************************)
\* attachments the documents page lists for the record
MaxFiles == 2

\* Path(original_name).suffix: the original name has an extension or none
Suffixes == {"", ".pdf"}

\* downloaded.suffix: the extension of the file Chrome writes
DownloadedSuffix == ".pdf"

AttachmentLists == UNION {[1..n -> Suffixes] : n \in 1..MaxFiles}

\* lines 218-219 and 295-296: id_dir / f"{guarantee_id}_{index}{suffix}"
stored_path(index, suffix) == <<index, suffix>>

\* line 241: {p.name for p in download_dir.iterdir() if p.is_file()}; the name
\* of a download changes when Chrome renames it to its final name
DirNames(d) == {<<o, d[o]>> : o \in {x \in DOMAIN d : d[x] # "absent"}}

\* the new files the poll tells apart: completed, and still in progress
NewCompleted == {o \in DOMAIN dl_dir : dl_dir[o] = "done" /\ <<o, "done">> \notin dl_before}

NewInProgress == {o \in DOMAIN dl_dir : dl_dir[o] = "part" /\ <<o, "part">> \notin dl_before}

\* _close_download_tab, lines 71-84: nothing without a download handle; else
\* switch to the tab and close it, NoSuchWindowException swallowed; then back
\* to the main window when it is still there, else to the first one left
close_download_tab(handles, focus, main_handle, download_handle) ==
    IF download_handle = ""
    THEN [handles |-> handles, focus |-> focus]
    ELSE LET left == handles \ {download_handle}
         IN  [handles |-> left,
              focus |-> IF main_handle \in left THEN main_handle
                        ELSE IF left # {} THEN CHOOSE h \in left : TRUE
                        ELSE IF download_handle \in handles THEN download_handle
                        ELSE focus]

DownloadIdle ==
    /\ dl_force = FALSE
    /\ dl_call = "none"
    /\ dl_atts = <<>>
    /\ dl_pc = "none"
    /\ dl_index = 1
    /\ dl_results = <<>>
    /\ dl_store = {}
    /\ dl_dir = [o \in 1..MaxFiles |-> "absent"]
    /\ dl_before = {}
    /\ dl_handles = {"main"}
    /\ dl_focus = "main"
    /\ dl_handle = ""
    /\ dl_downloaded = 0
    /\ dl_first = <<>>
    /\ dl_origin = [k \in 1..MaxFiles |-> 0]

\* lines 207-209: the first call for the record, its download directory cleaned
\* by the caller, the driver on its main window
DownloadInit ==
    /\ dl_force \in BOOLEAN
    /\ dl_call = "first"
    /\ dl_atts \in AttachmentLists
    /\ dl_pc = "top"
    /\ dl_index = 1
    /\ dl_results = <<>>
    /\ dl_store = {}
    /\ dl_dir = [o \in 1..MaxFiles |-> "absent"]
    /\ dl_before = {}
    /\ dl_handles = {"main"}
    /\ dl_focus = "main"
    /\ dl_handle = ""
    /\ dl_downloaded = 0
    /\ dl_first = <<>>
    /\ dl_origin = [k \in 1..MaxFiles |-> 0]

\* line 221: stored_path.exists() and not force, with the suffix of line 217
SkipExisting ==
    /\ stored_path(dl_index, dl_atts[dl_index]) \in dl_store
    /\ ~dl_force

\* lines 221-239: the row of a file that is already stored
DlSkip ==
    /\ dl_pc = "top"
    /\ dl_index <= Len(dl_atts)
    /\ SkipExisting
    /\ dl_results' = Append(dl_results, "SKIPPED_EXISTS")
    /\ dl_index' = dl_index + 1
    /\ UNCHANGED <<dl_force, dl_call, dl_atts, dl_pc, dl_store, dl_dir, dl_before,
                   dl_handles, dl_focus, dl_handle, dl_downloaded, dl_first,
                   dl_origin>>
    /\ UNCHANGED outside_download

\* lines 241-242 and _open_download, lines 53-68: the before set, then the URL
\* in a new tab, or in the current window when no new handle appears; a script
\* or navigation error of the driver raises out of the function
DlOpen ==
    /\ dl_pc = "top"
    /\ dl_index <= Len(dl_atts)
    /\ ~SkipExisting
    /\ dl_before' = DirNames(dl_dir)
    /\ \/ /\ dl_handles' = dl_handles \cup {"tab"}
          /\ dl_focus' = "tab"
          /\ dl_handle' = "tab"
          /\ dl_pc' = "detect"
       \/ /\ dl_handle' = ""
          /\ dl_pc' = "detect"
          /\ UNCHANGED <<dl_handles, dl_focus>>
       \/ /\ dl_pc' = "raised"
          /\ UNCHANGED <<dl_handles, dl_focus, dl_handle>>
    /\ UNCHANGED <<dl_force, dl_call, dl_atts, dl_index, dl_results, dl_store, dl_dir,
                   dl_downloaded, dl_first, dl_origin>>
    /\ UNCHANGED outside_download

\* lines 245-263 and 274-292: the tab is closed, the row of the failure is
\* appended, the loop goes on
DlFail(st) ==
    LET c == close_download_tab(dl_handles, dl_focus, "main", dl_handle)
    IN  /\ dl_handles' = c.handles
        /\ dl_focus' = c.focus
        /\ dl_results' = Append(dl_results, st)
        /\ dl_index' = dl_index + 1
        /\ dl_pc' = "top"

\* _detect_download_error, lines 87-100: the markers the page may show; the
\* server answers a URL with its error page or with the file, not with both
ErrorMarkers ==
    IF dl_dir[dl_index] = "absent" THEN {"FAILED_NOT_FOUND", "FAILED_ERROR_PAGE"}
    ELSE {}

\* lines 243-263: _detect_download_error right after the tab was opened
DlDetect ==
    /\ dl_pc = "detect"
    /\ \E immediate_error \in {""} \cup ErrorMarkers :
         IF immediate_error # ""
         THEN DlFail(immediate_error)
         ELSE /\ dl_pc' = "poll"
              /\ UNCHANGED <<dl_handles, dl_focus, dl_results, dl_index>>
    /\ UNCHANGED <<dl_force, dl_call, dl_atts, dl_store, dl_dir, dl_before, dl_handle,
                   dl_downloaded, dl_first, dl_origin>>
    /\ UNCHANGED outside_download

\* lines 264-292: _wait_for_download_result returns a completed file that is
\* not in the before set, or a failure (a stalled file is unlinked), or a stat
\* of a renamed file raises out of the function
DlPoll ==
    /\ dl_pc = "poll"
    /\ \/ /\ \E o \in NewCompleted : dl_downloaded' = o
          /\ dl_pc' = "move"
          /\ UNCHANGED <<dl_handles, dl_focus, dl_results, dl_index, dl_dir>>
       \/ /\ \E st \in ErrorMarkers \cup {"FAILED_TIMEOUT"} : DlFail(st)
          /\ UNCHANGED <<dl_dir, dl_downloaded>>
       \/ /\ \E o \in NewInProgress : dl_dir' = [dl_dir EXCEPT ![o] = "absent"]
          /\ DlFail("FAILED_STALLED")
          /\ UNCHANGED dl_downloaded
       \/ /\ dl_pc' = "raised"
          /\ UNCHANGED <<dl_handles, dl_focus, dl_results, dl_index, dl_dir,
                         dl_downloaded>>
    /\ UNCHANGED <<dl_force, dl_call, dl_atts, dl_store, dl_before, dl_handle,
                   dl_first, dl_origin>>
    /\ UNCHANGED outside_download

\* lines 294-296: the stored suffix is the original one, or the downloaded
\* file's when the original name has none
StoredSuffix(suffix) ==
    IF suffix = "" /\ DownloadedSuffix # "" THEN DownloadedSuffix ELSE suffix

\* lines 294-341: the file is moved to its stored path (over an existing one),
\* the tab is closed and the row appended, FAILED_MISSING for an empty file; or
\* shutil.move raises out of the function
DlStore ==
    /\ dl_pc = "move"
    /\ \/ LET path == stored_path(dl_index, StoredSuffix(dl_atts[dl_index]))
              c == close_download_tab(dl_handles, dl_focus, "main", dl_handle)
          IN  /\ dl_store' = dl_store \cup {path}
              /\ dl_dir' = [dl_dir EXCEPT ![dl_downloaded] = "absent"]
              /\ dl_origin' = [dl_origin EXCEPT ![dl_index] = dl_downloaded]
              /\ dl_handles' = c.handles
              /\ dl_focus' = c.focus
              /\ \E st \in {"DOWNLOADED", "FAILED_MISSING"} :
                   dl_results' = Append(dl_results, st)
              /\ dl_index' = dl_index + 1
              /\ dl_pc' = "top"
       \/ /\ dl_pc' = "raised"
          /\ UNCHANGED <<dl_store, dl_dir, dl_origin, dl_handles, dl_focus,
                         dl_results, dl_index>>
    /\ UNCHANGED <<dl_force, dl_call, dl_atts, dl_before, dl_handle, dl_downloaded,
                   dl_first>>
    /\ UNCHANGED outside_download

\* line 343: return results
DlReturn ==
    /\ dl_pc = "top"
    /\ dl_index > Len(dl_atts)
    /\ dl_pc' = "done"
    /\ UNCHANGED <<dl_force, dl_call, dl_atts, dl_index, dl_results, dl_store, dl_dir,
                   dl_before, dl_handles, dl_focus, dl_handle, dl_downloaded,
                   dl_first, dl_origin>>
    /\ UNCHANGED outside_download

\* a later run handles the record again: a new driver, the download directory
\* cleaned (collector line 203), the stored files where the first call left them
DlAgain(force) ==
    /\ dl_pc \in {"done", "raised"}
    /\ dl_call = "first"
    /\ dl_call' = "later"
    /\ dl_force' = force
    /\ dl_first' = dl_results
    /\ dl_pc' = "top"
    /\ dl_index' = 1
    /\ dl_results' = <<>>
    /\ dl_dir' = [o \in 1..MaxFiles |-> "absent"]
    /\ dl_before' = {}
    /\ dl_handles' = {"main"}
    /\ dl_focus' = "main"
    /\ dl_handle' = ""
    /\ dl_downloaded' = 0
    /\ dl_origin' = [k \in 1..MaxFiles |-> 0]
    /\ UNCHANGED <<dl_atts, dl_store>>
    /\ UNCHANGED outside_download

\* Chrome begins to write the download of the attachment whose URL was opened
DlBrowserStarts ==
    /\ dl_pc \in {"detect", "poll"}
    /\ dl_dir[dl_index] = "absent"
    /\ dl_dir' = [dl_dir EXCEPT ![dl_index] = "part"]
    /\ UNCHANGED <<dl_force, dl_call, dl_atts, dl_pc, dl_index, dl_results, dl_store,
                   dl_before, dl_handles, dl_focus, dl_handle, dl_downloaded,
                   dl_first, dl_origin>>
    /\ UNCHANGED outside_download

\* Chrome completes a download and renames it, whichever attempt started it
DlBrowserCompletes(o) ==
    /\ dl_pc \in {"top", "detect", "poll", "move"}
    /\ dl_dir[o] = "part"
    /\ dl_dir' = [dl_dir EXCEPT ![o] = "done"]
    /\ UNCHANGED <<dl_force, dl_call, dl_atts, dl_pc, dl_index, dl_results, dl_store,
                   dl_before, dl_handles, dl_focus, dl_handle, dl_downloaded,
                   dl_first, dl_origin>>
    /\ UNCHANGED outside_download

\* the download tab closes itself once the download has begun
DlTabClosesItself ==
    /\ dl_pc \in {"detect", "poll", "move"}
    /\ "tab" \in dl_handles
    /\ dl_handles' = dl_handles \ {"tab"}
    /\ UNCHANGED <<dl_force, dl_call, dl_atts, dl_pc, dl_index, dl_results, dl_store,
                   dl_dir, dl_before, dl_focus, dl_handle, dl_downloaded, dl_first,
                   dl_origin>>
    /\ UNCHANGED outside_download

DownloadNext ==
    \/ DlSkip
    \/ DlOpen
    \/ DlDetect
    \/ DlPoll
    \/ DlStore
    \/ DlReturn
    \/ \E force \in BOOLEAN : DlAgain(force)
    \/ DlBrowserStarts
    \/ \E o \in 1..MaxFiles : DlBrowserCompletes(o)
    \/ DlTabClosesItself

vars ==
    <<run_vars, task_vars, pool_vars, poll_vars, session_vars, plan_vars,
      writer_vars, download_vars>>

\* TaskSpec leaves the run state alone, Spec the task state
Init ==
    RunInit /\ TaskIdle /\ PoolIdle /\ PollIdle /\ SessionIdle /\ PlanIdle
    /\ WriterIdle /\ DownloadIdle

Next == RunNext

Spec == Init /\ [][Next]_vars

TaskStart ==
    RunInit /\ TaskInit /\ PoolIdle /\ PollIdle /\ SessionIdle /\ PlanIdle
    /\ WriterIdle /\ DownloadIdle

TaskSpec == TaskStart /\ [][TaskNext]_vars

PoolStart ==
    RunInit /\ TaskIdle /\ PoolInit /\ PollIdle /\ SessionIdle /\ PlanIdle
    /\ WriterIdle /\ DownloadIdle

PoolSpec == PoolStart /\ [][PoolNext]_vars

\* the steps a worker thread takes when it is scheduled and nothing raises
PoolStep(w) ==
    \/ PoolTop(w)
    \/ PoolFetch(w)
    \/ PoolAcquire(w)
    \/ PoolUnion(w)
    \/ PoolAppend(w)
    \/ PoolRetry(w)
    \/ PoolCheckpoint(w)
    \/ PoolSleep(w)
    \/ PoolFlush(w)

\* the workers of PoolSpec under a scheduler that lets every thread run
PoolFairSpec ==
    PoolStart /\ [][PoolNext]_vars /\ \A w \in PoolWorkers : WF_vars(PoolStep(w))

PollStart ==
    RunInit /\ TaskIdle /\ PoolIdle /\ PollInit /\ SessionIdle /\ PlanIdle
    /\ WriterIdle /\ DownloadIdle

PollSpec == PollStart /\ [][PollNext]_vars

\* the statements of the poll
PollStep ==
    \/ PollLoop
    \/ PollDetect
    \/ PollList
    \/ PollStat
    \/ PollCompleted
    \/ PollInProgress
    \/ PollSleep
    \/ PollWake

\* the poll when its thread keeps running and time passes
PollFairSpec ==
    PollStart /\ [][PollNext]_vars /\ WF_vars(PollStep) /\ WF_vars(Tick)

SessionStart ==
    RunInit /\ TaskIdle /\ PoolIdle /\ PollIdle /\ SessionInit /\ PlanIdle
    /\ WriterIdle /\ DownloadIdle

SessionSpec == SessionStart /\ [][SessionNext]_vars

PlanStart ==
    RunInit /\ TaskIdle /\ PoolIdle /\ PollIdle /\ SessionIdle /\ PlanInit
    /\ WriterIdle /\ DownloadIdle

PlanSpec == PlanStart /\ [][PlanNext]_vars

WriterStart ==
    RunInit /\ TaskIdle /\ PoolIdle /\ PollIdle /\ SessionIdle /\ PlanIdle
    /\ WriterInit /\ DownloadIdle

WriterSpec == WriterStart /\ [][WriterNext]_vars

DownloadStart ==
    RunInit /\ TaskIdle /\ PoolIdle /\ PollIdle /\ SessionIdle /\ PlanIdle
    /\ WriterIdle /\ DownloadInit

DownloadSpec == DownloadStart /\ [][DownloadNext]_vars

(***************************************************************************)
(* Properties of Spec.                                                     *)
(***************************************************************************)
\* the IDs processed so far in this invocation, by any worker
DoneAll == UNION {done[w] : w \in Workers}

\* the guarantee files of this invocation that hold a row of id
GuaranteeFilesOf(id) ==
    {f \in out_files : /\ f.table = "guarantees"
                       /\ f.run = run_id
                       /\ \E i \in DOMAIN f.rows : f.rows[i].id = id}

\* C1: when a worker has stopped, by returning or by raising, every ID it
\* appended to the processed-ID log in this run has its guarantee row in exactly
\* one output file.
C1_NoRecordLost ==
    \A w \in Workers :
        (phase = "running" /\ pc[w] \in {"returned", "raised"})
            => \A id \in done[w] : Cardinality(GuaranteeFilesOf(id)) = 1

\* C2: a run without --force that follows an interrupted run has, once all its
\* workers have returned, processed exactly the IDs the interrupted run had not
\* reached plus the IDs that were retry-eligible in the interrupted run, and
\* none of the IDs that had already ended OK or MISSING.
C2_Resumes ==
    (AllReturned /\ ~args.force /\ prev.interrupted)
        => /\ DoneAll = prev.remaining \cup prev.eligible
           /\ \A id \in DoneAll : id \in succeeded => processed_log[id] = 1

\* a run without --force all of whose worklist is already in the processed-ID
\* log, and in which nothing has been processed
IdemRun ==
    /\ phase = "running"
    /\ ~args.force
    /\ \A i \in DOMAIN ids : ids[i] \in processed_ids
    /\ DoneAll = {}

\* C3, as claimed: no step of such a run, its start and its end included,
\* changes any persisted state.
C3_NothingChanges ==
    [][(IdemRun \/ IdemRun') => Persisted' = Persisted]_vars

\* C3, amended: every step of such a run leaves the processed-ID log, the retry
\* queue, the attribute union, the checkpoint and the output files unchanged and
\* processes no ID; its start increments the run counter by one and no other
\* step changes it.
C3_Idempotent ==
    [][(IdemRun \/ IdemRun') =>
          /\ <<processed_log, retry_queue, checkpoint, attribute_union,
               out_files>>' =
             <<processed_log, retry_queue, checkpoint, attribute_union, out_files>>
          /\ last_run_id' = IF phase = "idle" THEN last_run_id + 1 ELSE last_run_id
          /\ \A w \in Workers : done'[w] = {}]_vars

\* a rerun that skipped its whole worklist and whose workers have all returned
C3_Witness ==
    /\ IdemRun
    /\ AllReturned
    /\ last_run_id >= 2
    /\ \A i \in DOMAIN ids : processed_log[ids[i]] >= 1

\* C4: an ID that is retry-eligible when an invocation without --force starts
\* has been processed again when all its workers have returned, and no entry
\* of the persisted retry queue has reached max_retries.
C4_RetriedUntilBound ==
    /\ (AllReturned /\ ~args.force)
          => \A i \in DOMAIN RetryIds(retry_queue) :
                 RetryIds(retry_queue)[i] \in DoneAll
    /\ \A i \in DOMAIN retry_queue : retry_queue[i].v < max_retries

\* C5: between invocations, every ID with a guarantee row in an output file is
\* in the processed-ID log, and no ID is in the log more than once.
C5_LoggedExactlyOnce ==
    phase = "idle" =>
        \A id \in Ids :
            /\ (\E f \in out_files :
                   /\ f.table = "guarantees"
                   /\ \E i \in DOMAIN f.rows : f.rows[i].id = id)
                 => processed_log[id] >= 1
            /\ processed_log[id] <= 1


(***************************************************************************)
(* Properties of TaskSpec                                                  *)
(***************************************************************************)
\* the worker has handed the rows of the current ID to the writers
Emitted == t_pc = "emitted"

PrimaryMissing == is_missing_page(general_html)

\* C6, as claimed: whenever the primary page reports "missing", the final status
\* of the ID is exactly MISSING and the documents page is never fetched or loaded.
C6_MissingIsFinal ==
    (Emitted /\ PrimaryMissing) => (status = "MISSING" /\ ~documents_loaded)

\* C6, amended: whenever the primary page reports "missing" the documents page is
\* never fetched or loaded, and the final status is MISSING unless an exception or
\* the per-ID alarm was raised afterwards inside the timed block (while the HTML
\* snapshot is saved): then it is the ERROR or the TIMEOUT of that handler.
C6_MissingUnlessRaised ==
    PrimaryMissing =>
        /\ ~documents_loaded
        /\ Emitted =>
             status = IF error_message = "" THEN "MISSING"
                      ELSE IF error_message = "Timeout after" THEN "TIMEOUT"
                      ELSE "ERROR"

C6_Witness ==
    /\ Emitted
    /\ PrimaryMissing
    /\ status = "MISSING"
    /\ error_message = ""
    /\ ~documents_loaded

\* C7: when the primary page signals "record not found", processing the ID emits
\* exactly one GuaranteeRecord, no AttributeRecord and no FileRecord, and the
\* worker is not aborted.
C7_MissingEmitsOneRow ==
    PrimaryMissing =>
        /\ t_pc # "raised"
        /\ Emitted => emitted = [guarantees |-> 1, attributes |-> 0, files |-> <<>>]

C7_Witness ==
    /\ Emitted
    /\ PrimaryMissing
    /\ emitted.guarantees = 1
    /\ emitted.attributes = 0
    /\ emitted.files = <<>>

\* C8: every record whose documents page lists m attachments gets exactly m
\* FileRecords, whatever the outcome of each attachment.
C8_OneFileRecordPerAttachment ==
    (Emitted /\ documents_html = "PAGE") => Len(emitted.files) = attachments

\* C9, as claimed: with m >= 1 FileRecords of which f failed, the status is ERROR
\* if f = m and PARTIAL if 0 < f < m.
C9_FailedFilesGiveStatus ==
    (Emitted /\ emitted.files # <<>>) =>
        LET m == Len(emitted.files)
            f == NumFailed(emitted.files)
        IN  /\ f = m => status = "ERROR"
            /\ (0 < f /\ f < m) => status = "PARTIAL"

\* C9, amended: with m >= 1 FileRecords of which f failed, the status is ERROR if
\* f = m; if 0 < f < m it is PARTIAL unless an exception or the per-ID timeout
\* had already made it ERROR or TIMEOUT, which it then keeps; in both cases one
\* warning counts the failures.
C9_FailedFilesUnlessRaised ==
    (Emitted /\ emitted.files # <<>>) =>
        LET m == Len(emitted.files)
            f == NumFailed(emitted.files)
        IN  /\ f = m => status = "ERROR"
            /\ (0 < f /\ f < m) =>
                 status = IF error_message = "" THEN "PARTIAL"
                          ELSE IF error_message = "Timeout after" THEN "TIMEOUT"
                          ELSE "ERROR"
            /\ f > 0 => warnings[Len(warnings)] = "Attachment failures"

C9_Witness ==
    /\ Emitted
    /\ Len(emitted.files) = 3
    /\ NumFailed(emitted.files) = 1
    /\ emitted.files[3] = "FAILED_STALLED"
    /\ status = "PARTIAL"

\* C10: with a per-ID deadline set, when the wait for the primary page runs out
\* of time the ID ends as TIMEOUT with one warning and the worker goes on to its
\* next ID, on the main thread and on a pool thread alike.
C10_PrimaryWaitGivesTimeout ==
    (HasDeadline /\ wait_exceeded) =>
        /\ t_pc # "raised"
        /\ Emitted => (status = "TIMEOUT" /\ Len(warnings) = 1)


(***************************************************************************)
(* Properties of PoolSpec                                                  *)
(***************************************************************************)
PoolReturned == \A w \in PoolWorkers : p_pc[w] = "returned"

\* worker i (0-based) owns the positions i, i + N, i + 2N, ... of 1..NumPoolIds
StripeOf(w) == {id \in 1..NumPoolIds : (id - 1) % pool.workers = w - 1}

InCriticalSection == {w \in PoolWorkers : p_pc[w] \in CriticalSection}

\* C11: with 2 workers on the IDs 1..n, once both workers have returned worker A
\* has processed exactly the odd IDs and worker B the even ones (less the IDs an
\* earlier run had logged), and the processed-ID set, in memory and in the file,
\* is 1..n, whatever the interleaving of the two workers was.
C11_StripesCoverAll ==
    PoolReturned =>
        /\ \A w \in PoolWorkers : p_done[w] = StripeOf(w) \ pool.before
        /\ shared.processed_ids = 1..NumPoolIds
        /\ Range(shared.processed_file) = 1..NumPoolIds

C11_Witness ==
    /\ PoolReturned
    /\ pool.before = {}
    /\ {1, 3} \subseteq p_done[1]
    /\ {2, 4} \subseteq p_done[2]
    /\ shared.processed_file[1] = 2
    /\ shared.checkpoint \in p_done[1]

\* C14: while workers run, every step that changes the processed-ID set, the
\* retry map, the attribute union or the checkpoint is taken by the worker that
\* holds the lock, inside the critical section, and at most one worker is inside
\* the critical section at any time.
C14_WritesUnderLock ==
    [][/\ Cardinality(InCriticalSection) <= 1
       /\ Cardinality(InCriticalSection') <= 1
       /\ shared' # shared =>
            \E w \in PoolWorkers :
                /\ state_lock = w
                /\ p_pc[w] \in CriticalSection
                /\ p_pc'[w] # p_pc[w]
                /\ \A v \in PoolWorkers \ {w} : p_pc'[v] = p_pc[v]]_vars

C14_Witness ==
    /\ state_lock = 1
    /\ p_pc[1] = "append"
    /\ p_pc[2] = "acquire"

\* C15: a worker that is doing a browser operation or a file read or write does
\* not hold the shared lock.
C15_NoLockDuringIO ==
    \A w \in PoolWorkers : p_pc[w] \in DoesIO => state_lock # w


(***************************************************************************)
(* Properties of PollSpec                                                  *)
(***************************************************************************)
\* C12: when no error marker is shown and a completed file has been in the
\* directory with an unchanged size for at least the stability window before the
\* timeout (the second of its last change is counted as lost), the poll has
\* returned that file as success; and the poll returns a file as success only
\* when the size it observed last changed at least a stability window ago.
C12_StableFileIsReturned ==
    /\ (/\ PollEnded
        /\ marker = ""
        /\ dir[DoneName] # Absent
        /\ changed_at[DoneName] + 1 + stable_seconds <= deadline)
       => result = [path |-> DoneName, status |-> ""]
    /\ result.status = "" =>
         /\ result.path = DoneName
         /\ progress[DoneName].size = dir[DoneName]
         /\ clock - progress[DoneName].last_change >= stable_seconds

\* C13: when no error marker is shown, no completed file is there and the
\* in-progress file has not changed size for the stall window, the poll has
\* returned FAILED_STALLED and the in-progress file is no longer in the directory.
C13_StalledFileIsRemoved ==
    (/\ PollEnded
     /\ marker = ""
     /\ dir[DoneName] = Absent
     /\ dir[PartName] # Absent \/ result.status = "FAILED_STALLED"
     /\ changed_at[PartName] + 1 + poll_cfg.stall_seconds <= clock)
    => (result.status = "FAILED_STALLED" /\ dir[PartName] = Absent)


(***************************************************************************)
(* Properties of TaskSpec and SessionSpec, error handling                  *)
(***************************************************************************)
\* C16: every failure of one ID, a transport-fatal browser failure and the
\* recovery from it included, ends in a classification; none ends the worker.
C16_FailureNeverEndsWorker == t_pc # "raised"

\* C18: at most the session the worker currently uses is open, and once a
\* live-mode worker has left _process_ids through its finally clause (end of
\* worklist, uncaught exception, failed restart) no session it built is open.
C18_SessionsClosedOnExit ==
    /\ open_sessions \subseteq {driver}
    /\ (s_pc = "exited" /\ s_mode = "live") => open_sessions = {}

C18_Witness ==
    /\ s_pc = "exited"
    /\ s_mode = "live"
    /\ exit_route = "restart failed"
    /\ created = 2
    /\ open_sessions = {}


(***************************************************************************)
(* Properties of Spec, loss of one worker                                  *)
(***************************************************************************)
\* C17: when a worker cannot build its first session and every other worker
\* has gone through its whole slice, the run still ends by saving the retry
\* state the other workers updated.
C17_LostWorkerIsIsolated ==
    [][(/\ phase = "running"
        /\ phase' = "idle"
        /\ \E w \in Active : pc[w] = "failed"
        /\ \A v \in Active : pc[v] = "failed"
                               \/ (pc[v] = "returned" /\ idx[v] > Len(MySlice(v))))
       => retry_queue' = retry_state]_vars


(***************************************************************************)
(* Properties of PlanSpec, the worklist and its partition                  *)
(***************************************************************************)
\* the retry-eligible IDs: in the retry queue with fewer than max_retries attempts
EligibleIds == {queue_file[i].k : i \in {j \in DOMAIN queue_file : queue_file[j].v < max_retries}}

\* how often an ID occurs in a list
Occurrences(s, id) == Cardinality({i \in DOMAIN s : s[i] = id})

\* C19: the lists the workers are started with are pairwise disjoint, for
\* every worklist main() can build.
C19_SlicesDisjoint ==
    plan_pc = "started" =>
        \A v, w \in PlanWorkers : v # w => Range(slices[v]) \cap Range(slices[w]) = {}

\* C20: with --skip-retries unset the worklist is the retry-eligible IDs in the
\* order of the retry queue, each once, followed by the selected IDs that are
\* not retry-eligible, in their original order.
C20_RetriesFirst ==
    (plan_pc \in {"parsed", "started", "returned"} /\ ~cli.skip_retries) =>
        LET n == Cardinality(EligibleIds)
            NotEligible(i) == i \notin EligibleIds
        IN  /\ Len(plan_ids) >= n
            /\ \A i, j \in 1..n : i < j =>
                   \E a, b \in DOMAIN queue_file :
                       /\ a < b
                       /\ queue_file[a].k = plan_ids[i]
                       /\ queue_file[b].k = plan_ids[j]
            /\ \A id \in EligibleIds :
                   /\ Occurrences(plan_ids, id) = 1
                   /\ \E i \in 1..n : plan_ids[i] = id
            /\ SubSeq(plan_ids, n + 1, Len(plan_ids))
                   = SelectSeq(select_ids(cli), NotEligible)

C20_Witness ==
    /\ plan_pc = "started"
    /\ ~cli.skip_retries
    /\ cli.ids = <<3, 1, 2>>
    /\ queue_file = <<[k |-> 2, v |-> 1], [k |-> 1, v |-> max_retries]>>
    /\ plan_ids = <<2, 3, 1>>


(***************************************************************************)
(* Properties of WriterSpec                                                *)
(***************************************************************************)
\* the files a record is in, with the positions it has there
PlacesOf(files, rec) ==
    {x \in files \X (1..MaxRecords) :
        x[2] \in DOMAIN x[1].rows /\ x[1].rows[x[2]] = rec}

\* C21: flush() on an empty buffer writes no file and changes nothing, so every
\* flush() that follows a flush() leaves the files and the buffer as they are.
C21_EmptyFlushChangesNothing ==
    [][(w_last' = "flush" /\ w_pc' = "open" /\ (w_batch = <<>> \/ w_last = "flush"))
          => (w_batch = <<>> /\ w_batch' = w_batch /\ w_files' = w_files)]_vars

C21_Witness ==
    /\ w_pc = "open"
    /\ w_streak = 2
    /\ Cardinality(w_files) = 1
    /\ w_batch = <<>>

\* C22: after each add() the buffer holds fewer than batch_size records; each
\* flush writes its whole buffer to exactly one new file and empties the buffer;
\* after a flush every added record is in exactly one file, at one position.
C22_EveryRecordInOneFile ==
    [][w_pc' = "open" =>
         LET buffer == IF w_last' = "add"
                       THEN w_batch \o [i \in 1..(w_next' - w_next) |-> w_next + i - 1]
                       ELSE w_batch
         IN  /\ w_last' = "add" => Len(w_batch') < batch_size
             /\ w_files' # w_files =>
                    /\ w_files \subseteq w_files'
                    /\ Cardinality(w_files' \ w_files) = 1
                    /\ \A f \in w_files' \ w_files : f.rows = buffer
                    /\ w_batch' = <<>>
             /\ w_files' = w_files =>
                    (w_batch' = buffer /\ (w_last' = "flush" => buffer = <<>>))
             /\ w_last' = "flush" =>
                    \A rec \in 1..(w_next' - 1) :
                        Cardinality(PlacesOf(w_files', rec)) = 1]_vars

C22_Witness ==
    /\ w_pc = "open"
    /\ w_last = "flush"
    /\ w_next = MaxRecords + 1
    /\ \E f \in w_files : Len(f.rows) = 1
    /\ \E f \in w_files : Len(f.rows) > batch_size


(***************************************************************************)
(* Properties of Spec, bookkeeping of a run                                *)
(***************************************************************************)
\* the step is the whole iteration of worker w for an ID it did not skip
Completes(w, id) ==
    /\ phase = "running"
    /\ phase' = "running"
    /\ id \notin done[w]
    /\ done' = [done EXCEPT ![w] = @ \cup {id}]

\* the sum of the workers' counts for one key of stats
RunTotal(k) == stats[1][k] + stats[2][k]

\* C23: the checkpoint is overwritten by every critical section and by nothing
\* else during a run; after the critical section of an ID it carries the run_id
\* of the run and that ID, whichever worker wrote last.
C23_CheckpointIsLastWriter ==
    [][(phase = "running" /\ phase' = "running") =>
          IF done' # done
          THEN \E w \in Workers, id \in Ids :
                  /\ Completes(w, id)
                  /\ checkpoint'.run_id = run_id
                  /\ checkpoint'.last_processed_id = id
          ELSE checkpoint' = checkpoint]_vars

C23_Witness ==
    /\ phase = "running"
    /\ args.workers = 2
    /\ run_id = 2
    /\ done[1] # {}
    /\ done[2] # {}
    /\ checkpoint.run_id = 2
    /\ checkpoint.last_processed_id \in done[1]
    /\ \E id \in done[2] : id > checkpoint.last_processed_id

\* C24: once the last critical section of a run with several workers is over,
\* the counts in the checkpoint are the totals over all workers.
C24_CheckpointHoldsRunTotals ==
    (/\ phase = "running"
     /\ checkpoint.run_id = run_id
     /\ \A w \in Active : pc[w] \in {"run", "returned"} /\ idx[w] > Len(MySlice(w)))
    => \A k \in StatKeys : checkpoint.stats[k] = RunTotal(k)

\* C25: an invocation takes its run_id by one increment of the persisted counter
\* before any worker starts; the run_id and the counter then stay as they are
\* until the run ends, every row and file written in the run carries the run_id,
\* and the run_ids of successive invocations increase strictly.
C25_RunIdOncePerRun ==
    [][/\ (phase = "idle" /\ phase' = "running") =>
             /\ last_run_id' = last_run_id + 1
             /\ run_id' = last_run_id'
             /\ \A w \in Workers : pc'[w] \in {"none", "start"}
       /\ (phase = "running" /\ phase' = "running") =>
             /\ run_id' = run_id
             /\ last_run_id' = last_run_id
             /\ \A f \in out_files' \ out_files :
                    /\ f.run = run_id
                    /\ \A i \in DOMAIN f.rows : f.rows[i].run_id = run_id
             /\ \A w \in Workers :
                    \A b \in {writers'[w].guarantees, writers'[w].attributes,
                              writers'[w].files} :
                        \A i \in DOMAIN b : b[i].run_id = run_id
       /\ phase = "idle" => \A f \in out_files : f.run <= last_run_id
       /\ last_run_id' >= last_run_id]_vars

C25_Witness ==
    /\ phase = "running"
    /\ run_id = 2
    /\ last_run_id = 2
    /\ \E f \in out_files : f.run = 1
    /\ \E f \in out_files : f.run = 2

\* C27: after the critical section of an ID that ended with status s and had c
\* attempts in the retry state before (0 when absent), the retry state holds
\* c + 1 for the ID if s is ERROR, PARTIAL or TIMEOUT and c + 1 < max_retries;
\* otherwise the ID is not in it; the entries of the other IDs are untouched.
C27_RetryStateRule ==
    [][\A w \in Workers, id \in Ids :
          Completes(w, id) =>
             \E s \in Statuses :
                /\ stats'[w][s] = stats[w][s] + 1
                /\ LET c == IF id \in DictKeys(retry_state)
                            THEN DictGet(retry_state, id, 0) ELSE 0
                   IN  IF s \in {"ERROR", "PARTIAL", "TIMEOUT"} /\ c + 1 < max_retries
                       THEN /\ id \in DictKeys(retry_state')
                            /\ DictGet(retry_state', id, 0) = c + 1
                       ELSE id \notin DictKeys(retry_state')
                /\ \A other \in Ids \ {id} :
                      /\ (other \in DictKeys(retry_state')) = (other \in DictKeys(retry_state))
                      /\ DictGet(retry_state', other, 0) = DictGet(retry_state, other, 0)]_vars

C27_Witness ==
    /\ phase = "running"
    /\ \E w \in Workers, id \in Ids :
          /\ id \in done[w]
          /\ id \notin succeeded
          /\ DictGet(retry_queue, id, 0) = max_retries - 1
          /\ id \notin DictKeys(retry_state)

\* C30: the iteration of an ID that is in the processed set, with --force unset,
\* moves the worker to its next ID and changes nothing else: no row reaches a
\* writer or a file, and the processed set and log, the retry state, the
\* attribute union, the checkpoint and the stats stay as they are.
C30_SkipChangesNothing ==
    [][\A w \in Workers :
          (/\ AtId(w)
           /\ MySlice(w)[idx[w]] \in processed_ids
           /\ ~args.force
           /\ idx'[w] # idx[w])
          => /\ idx' = [idx EXCEPT ![w] = @ + 1]
             /\ UNCHANGED <<writers, out_files, processed_ids, processed_log,
                            retry_state, retry_queue, attribute_union, checkpoint,
                            stats, done, pc, run_id>>]_vars

C30_Witness ==
    /\ phase = "running"
    /\ ~args.force
    /\ run_id = 2
    /\ \E w \in Workers :
          /\ pc[w] = "run"
          /\ idx[w] = 2
          /\ MySlice(w)[1] \in processed_ids
          /\ done[w] = {}
          /\ stats[w] = ZeroStats


(***************************************************************************)
(* Properties of TaskSpec, deadlines and the secondary page                *)
(***************************************************************************)
\* C26: when the per-ID deadline passes while the worker is at a suspension
\* point of the ID, the ID ends as TIMEOUT and the timeout is among its warnings.
C26_DeadlineGivesTimeout ==
    (Emitted /\ HasDeadline /\ expired_in = "wait") =>
        /\ status = "TIMEOUT"
        /\ \E i \in DOMAIN warnings : warnings[i] = "Per-ID processing timed out"

\* C29: when the primary page was read and the secondary page cannot be reached
\* or is the "no such record" page, the ID ends as PARTIAL with a warning.
C29_SecondaryFailureGivesPartial ==
    (/\ Emitted
     /\ general_html = "PAGE"
     /\ documents_loaded
     /\ (documents_html = "" \/ is_missing_page(documents_html))
     /\ error_message # "Timeout after")
    => (status = "PARTIAL" /\ warnings # <<>>)


(***************************************************************************)
(* Properties of SessionSpec, the exception handler                        *)
(***************************************************************************)
\* the texts of ExceptionTexts that hold a transport-fatal pattern
TransportFatalTexts ==
    {TextInvalidSessionId, TextConnectionResetNet, TextChromeNotReachable,
     TextDisconnectedDevTools}

C39_StatusAgreesWithFiles ==
    Emitted =>
        /\ status = "OK" =>
             /\ error_message = ""
             /\ NumFailed(emitted.files) = 0
        /\ status = "MISSING" => emitted.files = <<>>

C39_Witness ==
    /\ Emitted
    /\ status = "OK"
    /\ Len(emitted.files) = 2
    /\ emitted.files[1] = "DOWNLOADED"
    /\ emitted.files[2] = "SKIPPED_EXISTS"

\* C37: every ID whose RetryState entry is created or updated during a run is,
\* by the end of the same critical section, also in ProcessedIDSet, in memory
\* and in the persisted log.
C37_RetryKeysAreProcessed ==
    [][\A id \in Ids :
         (/\ phase = "running"
          /\ id \in DictKeys(retry_state')
          /\ DictGet(retry_state', id, 0) # DictGet(retry_state, id, 0))
         => (id \in processed_ids' /\ processed_log'[id] > 0)]_vars

C37_Witness ==
    /\ phase = "running"
    /\ \E w \in Workers, id \in Ids :
         /\ id \in done[w]
         /\ DictGet(retry_state, id, 0) = 1
         /\ id \notin DictKeys(retry_queue)
         /\ id \in processed_ids
         /\ processed_log[id] > 0

\* C38: the persisted retry-state file is written at most once per run, after
\* all workers have returned normally; in every earlier state of the run, and in
\* every run that ends with a worker raising, the persisted retry map still
\* equals its content at run start although the processed-ID log and checkpoint
\* already reflect the IDs handled.
C38_RetryFileWrittenAtEnd ==
    [][retry_queue' # retry_queue =>
         /\ phase = "running"
         /\ Active # {}
         /\ \A w \in Active : pc[w] = "returned"
         /\ retry_queue' = retry_state
         /\ phase' = "idle"]_vars

\* a worker has raised after an ID was handled: the log and the checkpoint hold
\* the ID, the retry map in memory has its entry, the file has not
C38_Witness ==
    /\ phase = "running"
    /\ \E w \in Active : pc[w] = "raised"
    /\ \E id \in Ids :
         /\ processed_log[id] > 0
         /\ checkpoint.last_processed_id = id
         /\ checkpoint.run_id = run_id
         /\ id \in DictKeys(retry_state)
         /\ id \notin DictKeys(retry_queue)

\* C35: AttributeUnion grows monotonically: after any sequence of merges by any
\* workers, every (section, field name) that was in the persisted union or in a
\* merged row with non-empty section and field name is still present; no merge
\* removes a field or a section.
C35_UnionGrows ==
    [][/\ shared.attribute_union \subseteq shared'.attribute_union
       /\ \A w \in PoolWorkers :
            (p_pc[w] = "union" /\ p_pc'[w] = "append") =>
                LET rows == p_outcome[w].attributes_rows
                IN  \A i \in DOMAIN rows :
                        (rows[i].section # "" /\ rows[i].field_name # "") =>
                            <<rows[i].section, rows[i].field_name>>
                                \in shared'.attribute_union]_vars

C35_Witness ==
    /\ shared.attribute_union = OldUnion \cup {<<"s", "f">>, <<"s", "g">>}
    /\ p_done[1] # {}
    /\ p_done[2] # {}
    /\ \E w \in PoolWorkers :
         p_pc[w] = "append" /\ p_outcome[w].attributes_rows = <<>>

\* the lock is with a worker only while that worker is inside the critical
\* section, so a worker that left it, by its last statement or by an exception,
\* has released it
LockOnlyInSection ==
    \A w \in PoolWorkers : state_lock = w => p_pc[w] \in CriticalSection

\* C40: the shared lock cannot deadlock or be leaked: a worker holds
\* it only inside the end-of-ID critical section, releases it on both normal and
\* exceptional exit from that section, and under fair scheduling every worker
\* that reaches the critical section eventually enters it and every worker
\* eventually finishes its partition.
C40_LockLiveAndPartitionsDone ==
    /\ []LockOnlyInSection
    /\ \A w \in PoolWorkers : (p_pc[w] = "acquire") ~> (state_lock = w)
    /\ \A w \in PoolWorkers :
         <>(p_pc[w] = "returned" /\ p_idx[w] > Len(PoolSlice(w)))

\* what holds of the lock under fair scheduling: every worker that reaches the
\* critical section eventually enters it, every worker eventually ends, by its
\* return with the partition finished or by an exception that leaves the rest
\* of the partition unprocessed, and the lock is free from then on
C40_LockLiveAndWorkersEnd ==
    /\ []LockOnlyInSection
    /\ \A w \in PoolWorkers : (p_pc[w] = "acquire") ~> (state_lock = w)
    /\ \A w \in PoolWorkers : <>[](p_pc[w] \in {"returned", "raised"})
    /\ \A w \in PoolWorkers :
         [](p_pc[w] = "returned" => p_idx[w] > Len(PoolSlice(w)))
    /\ <>[](state_lock = 0)

\* what _wait_for_download_result may return: a completed file, or no file and
\* the status of the failure
PollOutcomes ==
    {[path |-> DoneName, status |-> ""]}
    \cup [path : {""},
          status : {"FAILED_NOT_FOUND", "FAILED_ERROR_PAGE", "FAILED_STALLED",
                    "FAILED_TIMEOUT"}]

\* C34: the completion poll always terminates with exactly one outcome: a
\* completed file, FAILED_NOT_FOUND or FAILED_ERROR_PAGE (error marker seen at a
\* poll), FAILED_STALLED, or FAILED_TIMEOUT; it returns FAILED_TIMEOUT exactly
\* when the overall timeout elapses with none of the other outcomes reached
\* first, for every evolution of the download directory and browser page.
C34_PollEndsWithOneOutcome ==
    /\ <>(d_pc = "returned")
    /\ [](d_pc = "returned" => result \in PollOutcomes)
    /\ []((d_pc = "returned" /\ result.status = "FAILED_TIMEOUT") => clock >= deadline)

\* what holds of the poll while time passes: it ends, by a return with one of
\* its outcomes or by the exception of a file that was renamed under it
C34_PollEnds ==
    /\ <>[]PollEnded
    /\ [](d_pc = "returned" => result \in PollOutcomes)
    /\ [](result.status = "FAILED_TIMEOUT" => clock >= deadline)

(***************************************************************************)
(* Properties of DownloadSpec                                              *)
(***************************************************************************)
\* the downloader is between two attachments, or has returned or raised
DlBetween == dl_pc \in {"top", "done", "raised"}

\* C31: if an attachment's file already exists at its stored path and force is
\* false, the downloader emits SKIPPED_EXISTS for it without any browser
\* interaction; in particular, for every attachment stored by an earlier
\* successful download of the same (id, index), a later non-forced download of
\* the same attachment list yields SKIPPED_EXISTS rather than a second download.
C31_StoredFilesAreSkipped ==
    /\ [][(dl_pc = "top" /\ dl_index <= Len(dl_atts) /\ SkipExisting
           /\ dl_index' # dl_index)
          => (/\ dl_results' = Append(dl_results, "SKIPPED_EXISTS")
              /\ UNCHANGED <<dl_handles, dl_focus, dl_dir, dl_store>>)]_vars
    /\ []((dl_call = "later" /\ ~dl_force) =>
            \A k \in DOMAIN dl_results :
                (k \in DOMAIN dl_first /\ dl_first[k] = "DOWNLOADED")
                => dl_results[k] = "SKIPPED_EXISTS")

\* C32: for every attachment the downloader handles, whatever the outcome
\* (immediate error, stall, timeout, success, missing after move, or an
\* exception during polling or moving), the temporary browser context opened
\* for it is closed and focus is back on the worker's primary context before the
\* downloader moves on or returns; closing a context that already closed itself
\* does not raise.
C32_TabClosedBeforeMovingOn ==
    DlBetween => (dl_handles = {"main"} /\ dl_focus = "main")

\* C33: a failure of attachment i of a record, of any kind, never aborts its
\* siblings: attachments i+1..m of the same record are still attempted and each
\* receives its own FileRecord.
C33_SiblingsStillAttempted ==
    /\ dl_pc = "done" => Len(dl_results) = Len(dl_atts)
    /\ dl_pc = "raised" => \A j \in DOMAIN dl_atts : j <= dl_index

\* C36: every file accepted as the successful download of attachment k was
\* produced by attachment k's own download: a file of an earlier attachment
\* whose download was still in progress when its attempt ended and that later
\* appears under its final name is never stored as attachment k.
C36_StoredFileIsOwnDownload ==
    \A k \in DOMAIN dl_origin : dl_origin[k] \in {0, k}

====
